---- MODULE Spec2Model ----
(***************************************************************************)
(* Model of gotagger's version resolution engine: the commit-type table    *)
(* (mapper), the configuration loader (Config.ParseJSON), the increment    *)
(* step (parseCommits / incrementVersion), the release validator           *)
(* (validateCommitModules) and the tag orchestrator (Gotagger.TagRepo).    *)
(*                                                                         *)
(* Strings that are compared, sorted or cut (module names, paths, version  *)
(* prefixes) are sequences of byte values; commit types and JSON tokens,   *)
(* which are only tested for equality, are TLA+ strings.  A semantic       *)
(* version is a record [major, minor, patch]; pre-release and build        *)
(* metadata are not modelled.                                              *)
(***************************************************************************)
EXTENDS Integers, Sequences, FiniteSets, TLC

VARIABLES Config, cfgSource, pc, incArgs, incResult, valArgs, valResult,
          worktree, gitRepo, remoteTags, run, ret, calls,
          discovered, declared, grouped, resolved, callerCfg, answer, ncalls,
          rival

incVars == <<incArgs, incResult>>

valVars == <<valArgs, valResult>>

tagVars == <<worktree, gitRepo, remoteTags, run, ret, calls>>

modVars == <<discovered, declared, grouped, resolved>>

apiVars == <<callerCfg, answer, ncalls>>

extVars == <<modVars, apiVars, rival>>

vars == <<Config, cfgSource, pc, incVars, valVars, tagVars, extVars>>

(***************************************************************************)
(* Bounds                                                                  *)
(***************************************************************************)
MaxCommits == 2

(***************************************************************************)
(* mapper: increments, commit types, the commit type table                 *)
(***************************************************************************)
IncrementNone == 0
IncrementPatch == 1
IncrementMinor == 2
IncrementMajor == 3

Increments == {IncrementNone, IncrementPatch, IncrementMinor, IncrementMajor}

TypeFeature == "feat"
TypeBugFix == "fix"
TypeRelease == "release"

\* the empty type is what the commit parser yields for a message that is
\* not a conventional commit
CommitTypes == {TypeFeature, TypeBugFix, TypeRelease, ""}

Convert(inc) ==
    CASE inc = "major" -> [ok |-> TRUE, inc |-> IncrementMajor]
      [] inc = "minor" -> [ok |-> TRUE, inc |-> IncrementMinor]
      [] inc = "patch" -> [ok |-> TRUE, inc |-> IncrementPatch]
      [] inc \in {"none", ""} -> [ok |-> TRUE, inc |-> IncrementNone]
      [] OTHER -> [ok |-> FALSE, inc |-> IncrementNone]

\* a Go map is a record [nil, m]: a nil map has nil = TRUE and m = <<>>
NilMapper == [nil |-> TRUE, m |-> <<>>]

MakeMapper(f) == [nil |-> FALSE, m |-> f]

defaultCommitTypeMapper == MakeMapper(TypeFeature :> IncrementMinor)

NewTable_IgnoreNil(tm, defInc) == [Mapper |-> tm.m, defaultInc |-> defInc]

NewTable(tm, defInc) ==
    [Mapper |-> IF tm.nil THEN defaultCommitTypeMapper.m ELSE tm.m,
     defaultInc |-> defInc]

Get_NoReleasePin(t, typ) ==
    IF typ \in DOMAIN t.Mapper THEN t.Mapper[typ] ELSE t.defaultInc

Get(t, typ) ==
    IF typ = TypeRelease
    THEN IncrementPatch
    ELSE IF typ \in DOMAIN t.Mapper THEN t.Mapper[typ] ELSE t.defaultInc

(***************************************************************************)
(* Strings as byte sequences                                               *)
(***************************************************************************)
Str_v == <<118>>

Str_dot == <<46>>

Str_foo == <<102, 111, 111>>

Str_bar == <<98, 97, 114>>

Str_baz == <<98, 97, 122>>

Str_foo_bar == <<102, 111, 111, 47, 98, 97, 114>>

Str_bar_slash == <<98, 97, 114, 47>>

\* Go's < on strings: bytewise lexicographic order
RECURSIVE StrLess(_, _)
StrLess(a, b) ==
    IF b = <<>> THEN FALSE
    ELSE IF a = <<>> THEN TRUE
    ELSE IF a[1] # b[1] THEN a[1] < b[1]
    ELSE StrLess(Tail(a), Tail(b))

\* insert x into the ascending sequence s
RECURSIVE InsertString(_, _)
InsertString(x, s) ==
    IF s = <<>> THEN <<x>>
    ELSE IF StrLess(x, s[1]) THEN <<x>> \o s
    ELSE <<s[1]>> \o InsertString(x, Tail(s))

SortStrings_Unsorted(s) == s

\* sort.StringSlice(s).Sort()
RECURSIVE SortStrings(_)
SortStrings(s) ==
    IF s = <<>> THEN <<>> ELSE InsertString(s[1], SortStrings(Tail(s)))

(***************************************************************************)
(* Config                                                                  *)
(***************************************************************************)
NewDefaultConfig ==
    [CreateTag |-> FALSE,
     ExcludeModules |-> <<>>,
     IgnoreModules |-> FALSE,
     RemoteName |-> (<<111, 114, 105, 103, 105, 110>>),
     PreMajor |-> FALSE,
     PushTag |-> FALSE,
     VersionPrefix |-> Str_v,
     DirtyWorktreeIncrement |-> IncrementNone,
     CommitTypeTable |-> NewTable(NilMapper, IncrementPatch),
     Force |-> FALSE,
     Paths |-> <<>>]

\* The parsed JSON document: a record
\*   [malformed, DefaultIncrement, IncrementDirtyWorktree, ExcludeModules,
\*    IgnoreModules, IncrementMappings, IncrementPreReleaseMinor,
\*    VersionPrefix = [set, val]]
\* The result is [err, cfg]: cfg is the receiver after the call.
ParseJSON(c, data) ==
    LET dirty == Convert(data.IncrementDirtyWorktree)
        c1 == [c EXCEPT !.DirtyWorktreeIncrement = dirty.inc]
        c2 == IF data.VersionPrefix.set
              THEN [c1 EXCEPT !.VersionPrefix = data.VersionPrefix.val]
              ELSE c1
        maps == data.IncrementMappings
        badMapping == \E typ \in DOMAIN maps :
                          \/ ~Convert(maps[typ]).ok
                          \/ Convert(maps[typ]).inc = IncrementMajor
        table == IF DOMAIN maps = {}
                 THEN NilMapper
                 ELSE MakeMapper([typ \in DOMAIN maps |-> Convert(maps[typ]).inc])
        defTok == IF data.DefaultIncrement = "" THEN "patch" ELSE data.DefaultIncrement
        def == Convert(defTok)
    IN  IF data.malformed THEN [err |-> TRUE, cfg |-> c]
        ELSE IF ~dirty.ok \/ dirty.inc = IncrementMajor THEN [err |-> TRUE, cfg |-> c]
        ELSE IF "release" \in DOMAIN maps THEN [err |-> TRUE, cfg |-> c2]
        ELSE IF badMapping THEN [err |-> TRUE, cfg |-> c2]
        ELSE IF ~def.ok THEN [err |-> TRUE, cfg |-> c2]
        ELSE [err |-> FALSE,
              cfg |-> [c2 EXCEPT !.CommitTypeTable = NewTable(table, def.inc),
                                 !.ExcludeModules = data.ExcludeModules,
                                 !.IgnoreModules = data.IgnoreModules,
                                 !.PreMajor = data.IncrementPreReleaseMinor]]

(***************************************************************************)
(* semver.Version                                                          *)
(***************************************************************************)
\* a release version: pre is the pre-release identifier, empty for a release
Version(ma, mi, pa) == [major |-> ma, minor |-> mi, patch |-> pa, pre |-> <<>>]

IncMajor(v) == Version(v.major + 1, 0, 0)

IncMinor(v) == Version(v.major, v.minor + 1, 0)

\* the patch increment of a pre-release is its release
IncPatch(v) ==
    IF v.pre # <<>> THEN Version(v.major, v.minor, v.patch)
    ELSE Version(v.major, v.minor, v.patch + 1)

\* a pre-release is below its release; two pre-releases of one release are
\* ordered by their identifiers (one alphanumeric identifier: bytewise)
VersionLessThan(a, b) ==
    \/ a.major < b.major
    \/ a.major = b.major /\ a.minor < b.minor
    \/ a.major = b.major /\ a.minor = b.minor /\ a.patch < b.patch
    \/ /\ a.major = b.major /\ a.minor = b.minor /\ a.patch = b.patch
       /\ a.pre # <<>>
       /\ b.pre = <<>> \/ StrLess(a.pre, b.pre)

(***************************************************************************)
(* The increment step                                                      *)
(***************************************************************************)
mergeIncrement_LastWins(vinc, inc) ==
    IF inc \in {IncrementMinor, IncrementPatch, IncrementNone} THEN inc ELSE vinc

mergeIncrement_NoPatch(vinc, inc) ==
    CASE inc = IncrementMinor -> IF vinc < IncrementMajor THEN inc ELSE vinc
      [] OTHER -> vinc

\* the switch at the end of the loop body of parseCommits
mergeIncrement(vinc, inc) ==
    CASE inc = IncrementMinor -> IF vinc < IncrementMajor THEN inc ELSE vinc
      [] inc = IncrementPatch -> IF vinc < IncrementMinor THEN inc ELSE vinc
      [] inc = IncrementNone -> IF vinc < IncrementPatch THEN inc ELSE vinc
      [] OTHER -> vinc

RECURSIVE parseCommitsFrom_FirstOnly(_, _, _, _, _)
parseCommitsFrom_FirstOnly(cs, i, vinc, v, cfg) ==
    IF i > Len(cs) THEN vinc
    ELSE LET c == cs[i]
             inc == Get(cfg.CommitTypeTable, c.Type)
         IN  IF c.Breaking /\ i = 1 /\ (~cfg.PreMajor \/ v.major # 0)
             THEN IncrementMajor
             ELSE parseCommitsFrom_FirstOnly(cs, i + 1, mergeIncrement(vinc, inc), v, cfg)

\* the loop of parseCommits, from commit i on, with vinc accumulated so far
RECURSIVE parseCommitsFrom(_, _, _, _, _)
parseCommitsFrom(cs, i, vinc, v, cfg) ==
    IF i > Len(cs) THEN vinc
    ELSE LET c == cs[i]
             inc == Get(cfg.CommitTypeTable, c.Type)
         IN  IF c.Breaking /\ (~cfg.PreMajor \/ v.major # 0)
             THEN IncrementMajor
             ELSE parseCommitsFrom(cs, i + 1, mergeIncrement(vinc, inc), v, cfg)

parseCommits(cs, v, cfg) == parseCommitsFrom(cs, 1, IncrementNone, v, cfg)

\* incrementVersion that applies the dirty worktree increment whatever the
\* commit list is
incrementVersion_DirtyFirst(v, commits, isDirty, cfg) ==
    CASE isDirty /\ cfg.DirtyWorktreeIncrement = IncrementMinor -> IncMinor(v)
      [] isDirty /\ cfg.DirtyWorktreeIncrement = IncrementPatch -> IncPatch(v)
      [] OTHER -> IF Len(commits) > 0
                  THEN LET change == parseCommits(commits, v, cfg)
                       IN  CASE change = IncrementMajor -> IncMajor(v)
                             [] change = IncrementMinor -> IncMinor(v)
                             [] change = IncrementPatch -> IncPatch(v)
                             [] OTHER -> v
                  ELSE v

incrementVersion(v, commits, isDirty, cfg) ==
    IF Len(commits) > 0
    THEN LET change == parseCommits(commits, v, cfg)
         IN  CASE change = IncrementMajor -> IncMajor(v)
               [] change = IncrementMinor -> IncMinor(v)
               [] change = IncrementPatch -> IncPatch(v)
               [] OTHER -> v
    ELSE CASE isDirty /\ cfg.DirtyWorktreeIncrement = IncrementMinor -> IncMinor(v)
           [] isDirty /\ cfg.DirtyWorktreeIncrement = IncrementPatch -> IncPatch(v)
           [] OTHER -> v

(***************************************************************************)
(* strings and path/filepath                                               *)
(***************************************************************************)
Byte_slash == 47

Byte_dot == 46

Byte_comma == 44

Byte_space == 32

Byte_v == 118

Byte_0 == 48

Byte_9 == 57

Byte_dash == 45

HasPrefix(s, p) == Len(s) >= Len(p) /\ SubSeq(s, 1, Len(p)) = p

HasSuffix(s, p) == Len(s) >= Len(p) /\ SubSeq(s, Len(s) - Len(p) + 1, Len(s)) = p

TrimPrefix(s, p) == IF HasPrefix(s, p) THEN SubSeq(s, Len(p) + 1, Len(s)) ELSE s

TrimSuffix(s, p) == IF HasSuffix(s, p) THEN SubSeq(s, 1, Len(s) - Len(p)) ELSE s

\* the index of the last byte b of s, 0 when there is none
LastIndexByte(s, b) ==
    IF \E i \in DOMAIN s : s[i] = b
    THEN CHOOSE i \in DOMAIN s : s[i] = b /\ \A j \in DOMAIN s : s[j] = b => j <= i
    ELSE 0

\* filepath.Dir on a clean relative slash-separated path
Dir(p) ==
    LET i == LastIndexByte(p, Byte_slash)
    IN  IF i = 0 THEN Str_dot ELSE SubSeq(p, 1, i - 1)

\* strings.Split(s, sep) for a one-byte separator
RECURSIVE Split(_, _)
Split(s, sep) ==
    IF \E i \in DOMAIN s : s[i] = sep
    THEN LET i == CHOOSE k \in DOMAIN s : s[k] = sep /\ \A j \in 1..(k - 1) : s[j] # sep
         IN  <<SubSeq(s, 1, i - 1)>> \o Split(SubSeq(s, i + 1, Len(s)), sep)
    ELSE <<s>>

\* strings.TrimSpace, for the space byte
RECURSIVE TrimSpace(_)
TrimSpace(s) ==
    IF s = <<>> THEN s
    ELSE IF s[1] = Byte_space THEN TrimSpace(Tail(s))
    ELSE IF s[Len(s)] = Byte_space THEN TrimSpace(SubSeq(s, 1, Len(s) - 1))
    ELSE s

IsDigit(b) == b >= Byte_0 /\ b <= Byte_9

IsNumber(s) == s # <<>> /\ \A i \in DOMAIN s : IsDigit(s[i])

\* strconv: the value of a decimal number
RECURSIVE Atoi(_)
Atoi(s) ==
    IF s = <<>> THEN 0
    ELSE 10 * Atoi(SubSeq(s, 1, Len(s) - 1)) + (s[Len(s)] - Byte_0)

\* strconv: the decimal digits of a natural number
RECURSIVE Itoa(_)
Itoa(n) == IF n < 10 THEN <<Byte_0 + n>> ELSE Itoa(n \div 10) \o <<Byte_0 + (n % 10)>>

\* semver.NewVersion: an optional v, then one to three dot-separated
\* numbers; missing numbers are 0; then an optional pre-release: a dash and
\* one identifier of letters and digits.  Metadata suffixes are not
\* modelled: a name that has one does not parse here.
NewVersion(s) ==
    LET body == IF s # <<>> /\ s[1] = Byte_v THEN Tail(s) ELSE s
        dash == IF \E i \in DOMAIN body : body[i] = Byte_dash
                THEN CHOOSE i \in DOMAIN body :
                         body[i] = Byte_dash /\ \A j \in 1..(i - 1) : body[j] # Byte_dash
                ELSE Len(body) + 1
        pre == SubSeq(body, dash + 1, Len(body))
        parts == Split(SubSeq(body, 1, dash - 1), Byte_dot)
        part(i) == IF i <= Len(parts) THEN Atoi(parts[i]) ELSE 0
    IN  IF /\ Len(parts) <= 3 /\ \A i \in DOMAIN parts : IsNumber(parts[i])
           /\ dash <= Len(body) => pre # <<>>
           /\ \A i \in DOMAIN pre :
                  IsDigit(pre[i]) \/ pre[i] \in 65..90 \/ pre[i] \in 97..122
        THEN [ok |-> TRUE,
              v |-> [Version(part(1), part(2), part(3)) EXCEPT !.pre = pre]]
        ELSE [ok |-> FALSE, v |-> Version(0, 0, 0)]

\* semver.Version.String
VersionString(v) ==
    Itoa(v.major) \o <<Byte_dot>> \o Itoa(v.minor) \o <<Byte_dot>> \o Itoa(v.patch)
    \o (IF v.pre # <<>> THEN <<Byte_dash>> \o v.pre ELSE <<>>)

\* versionRegex.FindString(name): the match of /v\d+$ in name, "" if none
FindVersionSuffix(name) ==
    LET i == LastIndexByte(name, Byte_slash)
        rest == SubSeq(name, i + 1, Len(name))
    IN  IF i > 0 /\ rest # <<>> /\ rest[1] = Byte_v /\ IsNumber(Tail(rest))
        THEN SubSeq(name, i, Len(name))
        ELSE <<>>

(***************************************************************************)
(* Modules and the release validator                                       *)
(***************************************************************************)
Module(path, name, prefix) == [path |-> path, name |-> name, prefix |-> prefix]

\* the set of module names of a slice of modules: the keys of the Go map
\* that validateCommitModules builds from it
NameSet(modules) == {modules[i].name : i \in DOMAIN modules}

\* the orders in which a range over a Go map with key set S can deliver its
\* keys
KeyOrders(S) ==
    {s \in [1..Cardinality(S) -> S] :
        \A i, j \in 1..Cardinality(S) : i # j => s[i] # s[j]}

\* a nil error
NoError == [failed |-> FALSE, msg |-> <<>>]

\* commitIter and changedIter are the orders in which the two map ranges
\* deliver the keys.  The error is [failed, msg]; msg is the sequence of the
\* message's sections after "module validation failed:", each one a label
\* and the comma-joined list of names.
validateCommitModules(commitModules, changedModules, commitIter, changedIter) ==
    LET commitMap == NameSet(commitModules)
        changedMap == NameSet(changedModules)
        extra == SortStrings(SelectSeq(commitIter, LAMBDA n : n \notin changedMap))
        missing == SortStrings(SelectSeq(changedIter, LAMBDA n : n \notin commitMap))
        msg == (IF Len(extra) > 0
                THEN <<[label |-> "modules not changed by commit",
                        names |-> extra]>>
                ELSE <<>>)
               \o (IF Len(missing) > 0
                   THEN <<[label |-> "changed modules not released by commit",
                           names |-> missing]>>
                   ELSE <<>>)
    IN  [failed |-> msg # <<>>, msg |-> msg]

(***************************************************************************)
(* Module discovery                                                        *)
(***************************************************************************)
\* sortByPath.Less
Less(si, sj) ==
    IF Len(si.path) < Len(sj.path) THEN TRUE ELSE StrLess(si.path, sj.path)

\* the inner loop of sort's insertionSort: move element j down while it is
\* Less than its predecessor
RECURSIVE SiftDown(_, _)
SiftDown(s, j) ==
    IF j > 1 /\ Less(s[j], s[j - 1])
    THEN SiftDown([s EXCEPT ![j] = s[j - 1], ![j - 1] = s[j]], j - 1)
    ELSE s

RECURSIVE InsertionSortFrom(_, _)
InsertionSortFrom(s, i) ==
    IF i > Len(s) THEN s ELSE InsertionSortFrom(SiftDown(s, i), i + 1)

\* sortByPath(modules).Sort(): sort.Sort is an insertion sort for slices of
\* fewer than 7 elements
SortByPath(modules) == InsertionSortFrom(modules, 2)

normalizePath(p) ==
    LET p1 == IF ~HasPrefix(p, <<Byte_dot, Byte_slash>>) /\ p # Str_dot
              THEN <<Byte_dot, Byte_slash>> \o p ELSE p
    IN  IF ~HasSuffix(p1, <<Byte_slash>>) THEN p1 \o <<Byte_slash>> ELSE p1

\* the prefix findAllModules derives for the module modName at modPath
ModulePrefix(modPath, modName) ==
    IF modPath = Str_dot THEN <<>>
    ELSE LET major == TrimPrefix(FindVersionSuffix(modName), <<Byte_slash>>)
             trimmed == TrimSuffix(modPath, major)
         IN  IF trimmed # <<>> /\ ~HasSuffix(trimmed, <<Byte_slash>>)
             THEN trimmed \o <<Byte_slash>>
             ELSE trimmed

SeqContains(s, x) == \E i \in DOMAIN s : s[i] = x

\* files is the sequence of go.mod files the walk of the worktree reaches,
\* in the order of the walk, each as [path, name]: the directory of the file
\* relative to the repository and the module path it declares.  The result
\* is [err, modules].
findAllModules(files, include, cfg) ==
    LET pathexclude == [i \in DOMAIN cfg.ExcludeModules |->
                            normalizePath(cfg.ExcludeModules[i])]
        keep(f) ==
            /\ ~(Len(include) > 0 /\ ~SeqContains(include, f.name))
            /\ ~SeqContains(cfg.ExcludeModules, f.name)
            /\ ~\E i \in DOMAIN pathexclude :
                    HasPrefix(normalizePath(f.path), pathexclude[i])
        kept == SelectSeq(files, keep)
        modules == [i \in DOMAIN kept |->
                        Module(kept[i].path, kept[i].name,
                               ModulePrefix(kept[i].path, kept[i].name))]
    IN  [err |-> Len(modules) > 0 /\ Len(cfg.Paths) > 0,
         modules |-> SortByPath(modules)]

\* a Go map built by assigning key(s[i]) -> s[i] for i = 1, 2, ...: the last
\* element with a key wins
MapBy(s, key(_)) ==
    [k \in {key(s[i]) : i \in DOMAIN s} |->
        s[CHOOSE i \in DOMAIN s :
              key(s[i]) = k /\ \A j \in DOMAIN s : key(s[j]) = k => j <= i]]

mapModulesByPath(modules) == MapBy(modules, LAMBDA m : m.path)

\* isModuleFile and isPathFile: walk up from the directory of filename until
\* a key of the map or the root path is met.  The result is [ok, val].
RECURSIVE LookupDir(_, _)
LookupDir(dir, map) ==
    IF dir \in DOMAIN map THEN [ok |-> TRUE, val |-> map[dir]]
    ELSE IF dir = Str_dot THEN [ok |-> FALSE, val |-> <<>>]
    ELSE LookupDir(Dir(dir), map)

isModuleFile(filename, moduleMap) == LookupDir(Dir(filename), moduleMap)

isPathFile(filename, pathMap) == LookupDir(Dir(filename), pathMap)

\* the footer text split at commas, each name trimmed
FooterNames(footer) ==
    LET parts == Split(footer.Text, Byte_comma)
    IN  [i \in DOMAIN parts |-> TrimSpace(parts[i])]

RECURSIVE Flatten(_)
Flatten(ss) == IF ss = <<>> THEN <<>> ELSE ss[1] \o Flatten(Tail(ss))

\* the result is [err, modules]
\* the modules named by the footers of c, in the order of modules
extractCommitModules_DiscoveryOrder(c, modules) ==
    LET footers == SelectSeq(c.Footers, LAMBDA f : f.Title = "Modules")
        names == Flatten([i \in DOMAIN footers |-> FooterNames(footers[i])])
        named == SelectSeq(modules, LAMBDA m : SeqContains(names, m.name))
    IN  IF \E i \in DOMAIN names : names[i] \notin NameSet(modules)
        THEN [err |-> TRUE, modules |-> <<>>]
        ELSE IF Len(named) = 0
        THEN [err |-> FALSE, modules |-> <<modules[1]>>]
        ELSE [err |-> FALSE, modules |-> named]

extractCommitModules(c, modules) ==
    LET moduleNameMap == MapBy(modules, LAMBDA m : m.name)
        footers == SelectSeq(c.Footers, LAMBDA f : f.Title = "Modules")
        names == Flatten([i \in DOMAIN footers |-> FooterNames(footers[i])])
        commitModules == [i \in DOMAIN names |->
                              IF names[i] \in DOMAIN moduleNameMap
                              THEN moduleNameMap[names[i]] ELSE <<>>]
        rootModule == IF \E i \in DOMAIN modules : modules[i].path = Str_dot
                      THEN modules[CHOOSE i \in DOMAIN modules :
                                       /\ modules[i].path = Str_dot
                                       /\ \A j \in 1..(i - 1) : modules[j].path # Str_dot]
                      ELSE modules[1]
    IN  IF \E i \in DOMAIN names : names[i] \notin DOMAIN moduleNameMap
        THEN [err |-> TRUE, modules |-> <<>>]
        ELSE IF Len(commitModules) = 0
        THEN [err |-> FALSE, modules |-> <<rootModule>>]
        ELSE [err |-> FALSE, modules |-> commitModules]

\* the modules validateCommit collects from the changes of c
RECURSIVE ChangedModules(_, _)
ChangedModules(changes, modulesByPath) ==
    IF changes = <<>> THEN <<>>
    ELSE LET src == isModuleFile(changes[1].SourceName, modulesByPath)
             dst == isModuleFile(changes[1].DestName, modulesByPath)
             rest == ChangedModules(Tail(changes), modulesByPath)
         IN  IF src.ok THEN <<src.val>> \o rest
             ELSE IF dst.ok THEN <<dst.val>> \o rest
             ELSE rest

validateCommit_Skipped(c, modules, commitModules, commitRank, changedRank) == NoError

\* the result is the error of validateCommitModules, or no error.  commitRank
\* and changedRank list all module names: a range over a map delivers its
\* keys in the order of the rank.
validateCommit(c, modules, commitModules, commitRank, changedRank) ==
    IF Len(modules) = 0 THEN NoError
    ELSE IF c.Type = TypeRelease
    THEN LET changedModules == ChangedModules(c.Changes, mapModulesByPath(modules))
         IN  validateCommitModules(
                 commitModules, changedModules,
                 SelectSeq(commitRank, LAMBDA n : n \in NameSet(commitModules)),
                 SelectSeq(changedRank, LAMBDA n : n \in NameSet(changedModules)))
    ELSE NoError

\* CommitModules without the set of modules already appended for
RECURSIVE CommitModules_Unmapped(_, _, _)
CommitModules_Unmapped(changes, modulesByPath, mapped) ==
    IF changes = <<>> THEN <<>>
    ELSE LET src == isModuleFile(changes[1].SourceName, modulesByPath)
             dst == isModuleFile(changes[1].DestName, modulesByPath)
             hit == IF src.ok THEN <<src.val>>
                    ELSE IF changes[1].DestName # <<>> /\ dst.ok THEN <<dst.val>>
                    ELSE <<>>
         IN  hit \o CommitModules_Unmapped(Tail(changes), modulesByPath, mapped)

\* the modules one commit is appended for in groupCommitsByModule, in the
\* order of its changes; mapped is the set it was already appended for
RECURSIVE CommitModules(_, _, _)
CommitModules(changes, modulesByPath, mapped) ==
    IF changes = <<>> THEN <<>>
    ELSE LET src == isModuleFile(changes[1].SourceName, modulesByPath)
             dst == isModuleFile(changes[1].DestName, modulesByPath)
             hit == IF src.ok THEN <<src.val>>
                    ELSE IF changes[1].DestName # <<>> /\ dst.ok THEN <<dst.val>>
                    ELSE <<>>
             new == SelectSeq(hit, LAMBDA m : m \notin mapped)
         IN  new \o CommitModules(Tail(changes), modulesByPath,
                                  mapped \cup {hit[i] : i \in DOMAIN hit})

RECURSIVE Repeat(_, _)
Repeat(x, n) == IF n = 0 THEN <<>> ELSE <<x>> \o Repeat(x, n - 1)

\* groupCommitsByModule(commits, modules)[m]: nil when m is no key.  A commit
\* is appended once for every time its changes yield m.
groupCommitsByModule(commits, modules, m) ==
    LET modulesByPath == mapModulesByPath(modules)
        hits(commit) ==
            Len(SelectSeq(CommitModules(commit.Changes, modulesByPath, {}),
                          LAMBDA x : x = m))
    IN  Flatten([k \in DOMAIN commits |-> Repeat(commits[k], hits(commits[k]))])

\* the number of times groupCommitsByPath appends one commit for path p
RECURSIVE PathHits(_, _, _)
PathHits(changes, pathsMap, p) ==
    IF changes = <<>> THEN 0
    ELSE LET src == isPathFile(changes[1].SourceName, pathsMap)
             dst == isPathFile(changes[1].DestName, pathsMap)
         IN  (IF src.ok /\ src.val = p THEN 1 ELSE 0)
             + (IF dst.ok /\ dst.val = p THEN 1 ELSE 0)
             + PathHits(Tail(changes), pathsMap, p)

\* groupCommitsByPath(commits)[p]: nil when p is no key
RECURSIVE groupCommitsByPath(_, _, _)
groupCommitsByPath(commits, paths, p) ==
    IF commits = <<>> THEN <<>>
    ELSE Repeat(commits[1],
                PathHits(commits[1].Changes, MapBy(paths, LAMBDA q : q), p))
         \o groupCommitsByPath(Tail(commits), paths, p)

(***************************************************************************)
(* The git repository (internal/git).  A repository is a record            *)
(* [history, tags, dirty]: history is the first-parent chain of HEAD,      *)
(* oldest commit first, and the hash of a commit is its index in it; tags  *)
(* is the set of local tags [name, at]; dirty tells whether the worktree   *)
(* has uncommitted changes.  The empty hash is 0.                          *)
(***************************************************************************)
NoHash == 0

RECURSIVE Reverse(_)
Reverse(s) == IF s = <<>> THEN <<>> ELSE Reverse(Tail(s)) \o <<s[1]>>

TagNames(tags) == {t.name : t \in tags}

\* Repository.Tags("HEAD", prefix): git tag --merged HEAD --list prefix*,
\* the output split at newlines; git lists the names in ascending order, and
\* the split of an empty output is one empty name
RepoTags(repo, prefix) ==
    LET names == {n \in TagNames(repo.tags) : HasPrefix(n, prefix)}
    IN  IF names = {} THEN <<<<>>>>
        ELSE SortStrings(CHOOSE s \in KeyOrders(names) : TRUE)

\* Repository.RevParse(tag + "^{commit}")
RevParse(repo, tag) == (CHOOSE t \in repo.tags : t.name = tag).at

\* git's pathspec match of a changed file against a directory
UnderPath(file, path) ==
    \/ path = Str_dot
    \/ file = path
    \/ HasPrefix(file, path \o <<Byte_slash>>)

TouchesPath(c, path) ==
    \E i \in DOMAIN c.Changes :
        \/ UnderPath(c.Changes[i].SourceName, path)
        \/ /\ c.Changes[i].DestName # <<>>
           /\ UnderPath(c.Changes[i].DestName, path)

\* Repository.RevList("HEAD", end, path): the commits after end that touch
\* path, newest first
RevList(repo, end, path) ==
    Reverse(SelectSeq(repo.history,
                      LAMBDA c : c.Hash > end /\ TouchesPath(c, path)))

\* Repository.Head: git log HEAD ^HEAD^ fails when HEAD has no parent.  The
\* result is [err, c].
RepoHead(repo) ==
    IF Len(repo.history) < 2
    THEN [err |-> TRUE, c |-> <<>>]
    ELSE [err |-> FALSE, c |-> repo.history[Len(repo.history)]]

(***************************************************************************)
(* Version resolution                                                      *)
(***************************************************************************)
\* the loop of latest from tag i on: the result is [v, hash]
RECURSIVE latestFrom(_, _, _, _, _, _)
latestFrom(repo, tagNames, prefix, i, lat, hash) ==
    IF i > Len(tagNames) THEN [v |-> lat, hash |-> hash]
    ELSE LET tver == NewVersion(TrimPrefix(tagNames[i], prefix))
         IN  IF tver.ok /\ VersionLessThan(lat, tver.v)
             THEN latestFrom(repo, tagNames, prefix, i + 1, tver.v,
                             RevParse(repo, tagNames[i]))
             ELSE latestFrom(repo, tagNames, prefix, i + 1, lat, hash)

latest(repo, tagNames, prefix) ==
    latestFrom(repo, tagNames, prefix, 1, Version(0, 0, 0), NoHash)

\* the major version of the module name: the N of a /vN suffix, else 0
ModuleMajor(m) ==
    LET suffix == FindVersionSuffix(m.name)
    IN  IF suffix = <<>> THEN 0 ELSE Atoi(SubSeq(suffix, 3, Len(suffix)))

\* the loop of latestModule from tag i on: the result is [found, v, tag]
RECURSIVE latestModuleFrom(_, _, _, _, _)
latestModuleFrom(tagNames, m, i, maximumVersion, best) ==
    IF i > Len(tagNames) THEN best
    ELSE LET tver == NewVersion(TrimPrefix(tagNames[i], m.prefix))
             moduleVersion == Version(ModuleMajor(m), 0, 0)
         IN  IF /\ tver.ok
                /\ VersionLessThan(tver.v, maximumVersion)
                /\ ~VersionLessThan(tver.v, moduleVersion)
                /\ (~best.found \/ VersionLessThan(best.v, tver.v))
             THEN latestModuleFrom(tagNames, m, i + 1, maximumVersion,
                                   [found |-> TRUE, v |-> tver.v, tag |-> tagNames[i]])
             ELSE latestModuleFrom(tagNames, m, i + 1, maximumVersion, best)

\* the result is [v, hash]
latestModule(repo, tagNames, m) ==
    LET moduleVersion == Version(ModuleMajor(m), 0, 0)
        maximumVersion == IF ModuleMajor(m) = 0
                          THEN IncMajor(IncMajor(moduleVersion))
                          ELSE IncMajor(moduleVersion)
        best == latestModuleFrom(tagNames, m, 1, maximumVersion,
                                 [found |-> FALSE, v |-> moduleVersion, tag |-> <<>>])
    IN  IF ~best.found THEN [v |-> moduleVersion, hash |-> NoHash]
        ELSE [v |-> best.v, hash |-> RevParse(repo, best.tag)]

\* versionPath once the latest tagged version below HEAD is known
versionPathFrom(p, cfg, repo, lat) ==
    cfg.VersionPrefix \o VersionString(
        incrementVersion(lat.v,
                         groupCommitsByPath(RevList(repo, lat.hash, p), cfg.Paths, p),
                         repo.dirty, cfg))

\* versionPath once the tags are listed
versionPathOfTags(p, cfg, repo, tagNames) ==
    IF cfg.VersionPrefix = <<>>
    THEN IF \E i \in DOMAIN tagNames : tagNames[i] = <<>>
         THEN [err |-> "panic", version |-> <<>>]
         ELSE [err |-> "none",
               version |-> versionPathFrom(
                   p, cfg, repo,
                   latest(repo, SelectSeq(tagNames, LAMBDA tag : IsDigit(tag[1])),
                          cfg.VersionPrefix))]
    ELSE [err |-> "none",
          version |-> versionPathFrom(p, cfg, repo,
                                      latest(repo, tagNames, cfg.VersionPrefix))]

\* the result is [err, version]; err is "panic" when the tag filter for the
\* empty prefix indexes an empty tag name
versionPath(p, cfg, repo) ==
    versionPathOfTags(p, cfg, repo, RepoTags(repo, cfg.VersionPrefix))

\* the results of versionPath for the paths, up to the first error
versionsOfPaths(rs, cfg1) ==
    IF \E i \in DOMAIN rs : rs[i].err # "none"
    THEN [err |-> rs[CHOOSE i \in DOMAIN rs :
                         /\ rs[i].err # "none"
                         /\ \A j \in 1..(i - 1) : rs[j].err = "none"].err,
          versions |-> <<>>, cfg |-> cfg1]
    ELSE [err |-> "none", versions |-> [i \in DOMAIN rs |-> rs[i].version],
          cfg |-> cfg1]

\* versionsSimple with Config.Paths set
versionsSimplePaths(cfg1, repo) ==
    versionsOfPaths([i \in DOMAIN cfg1.Paths |-> versionPath(cfg1.Paths[i], cfg1, repo)],
                    cfg1)

\* the result is [err, versions, cfg]: cfg is the Config after the call,
\* with Paths defaulted to the root path
versionsSimple(cfg, repo) ==
    versionsSimplePaths(IF Len(cfg.Paths) = 0 THEN [cfg EXCEPT !.Paths = <<Str_dot>>]
                        ELSE cfg,
                        repo)

\* versionsModules for one module once its latest version is known
versionOfModuleFrom(mod, modules, cfg, repo, prefix, lat) ==
    IF lat.hash = NoHash
    THEN prefix \o VersionString(lat.v)
    ELSE prefix \o VersionString(
             incrementVersion(lat.v,
                              groupCommitsByModule(RevList(repo, lat.hash, mod.path),
                                                   modules, mod),
                              repo.dirty, cfg))

\* versionsModules for one module with the tag prefix of the module
versionOfModuleWith(mod, modules, cfg, repo, prefix) ==
    versionOfModuleFrom(mod, modules, cfg, repo, prefix,
                        latestModule(repo, RepoTags(repo, prefix), mod))

\* the version versionsModules computes for one module
versionOfModule(mod, modules, cfg, repo) ==
    versionOfModuleWith(mod, modules, cfg, repo,
                        IF mod.prefix # <<>> THEN mod.prefix \o cfg.VersionPrefix
                        ELSE cfg.VersionPrefix)

versionsModules(modules, commitModules, cfg, repo) ==
    LET targets == IF Len(commitModules) = 0 THEN modules ELSE commitModules
    IN  [i \in DOMAIN targets |-> versionOfModule(targets[i], modules, cfg, repo)]

\* the result is [err, versions, cfg]
versions(modules, commitModules, cfg, repo) ==
    IF Len(modules) # 0
    THEN [err |-> "none",
          versions |-> versionsModules(modules, commitModules, cfg, repo),
          cfg |-> cfg]
    ELSE versionsSimple(cfg, repo)

(***************************************************************************)
(* TagRepo                                                                 *)
(***************************************************************************)
TagDecision_ForceAlone(cfg, c) ==
    cfg.Force \/ (c.Type = TypeRelease /\ cfg.CreateTag)

\* the condition under which TagRepo creates tags
TagDecision(cfg, c) == (cfg.Force \/ c.Type = TypeRelease) /\ cfg.CreateTag

\* TagRepo up to the decision to tag: the result is
\* [err, versions, cfg, c, tag]; err names the step that failed, c is the
\* HEAD commit and tag is the decision.
ResolveFailed(e, cfg) ==
    [err |-> e, detail |-> NoError, versions |-> <<>>,
     cfg |-> cfg, hash |-> NoHash, tag |-> FALSE]

\* TagRepo from the result vs of versions
ResolveVersions(cfg, c, vs) ==
    IF vs.err # "none" THEN ResolveFailed(vs.err, vs.cfg)
    ELSE [err |-> "none", detail |-> NoError, versions |-> vs.versions,
          cfg |-> vs.cfg, hash |-> c.Hash, tag |-> TagDecision(cfg, c)]

\* TagRepo from the result verr of validateCommit
ResolveValidated(cfg, rp, c, modules, commitModules, verr) ==
    IF verr.failed THEN [ResolveFailed("validation", cfg) EXCEPT !.detail = verr]
    ELSE ResolveVersions(cfg, c, versions(modules, commitModules, cfg, rp))

\* TagRepo from the result ecm of extractCommitModules
ResolveExtracted(cfg, rp, c, modules, ecm, commitRank, changedRank) ==
    IF ecm.err THEN ResolveFailed("footer", cfg)
    ELSE ResolveValidated(cfg, rp, c, modules, ecm.modules,
                          validateCommit(c, modules, ecm.modules,
                                         commitRank, changedRank))

\* TagRepo from the result h of Head
ResolveAtHead(cfg, rp, modules, h, commitRank, changedRank) ==
    IF h.err THEN ResolveFailed("head", cfg)
    ELSE IF Len(modules) > 0
    THEN ResolveExtracted(cfg, rp, h.c, modules,
                          extractCommitModules(h.c, modules),
                          commitRank, changedRank)
    ELSE ResolveVersions(cfg, h.c, versions(modules, <<>>, cfg, rp))

\* TagRepo from the result found of findAllModules
ResolveModules(cfg, rp, found, commitRank, changedRank) ==
    IF found.err THEN ResolveFailed("paths", cfg)
    ELSE ResolveAtHead(cfg, rp, found.modules, RepoHead(rp), commitRank, changedRank)

TagRepoResolve(cfg, files, rp, commitRank, changedRank) ==
    ResolveModules(cfg, rp,
                   IF ~cfg.IgnoreModules THEN findAllModules(files, <<>>, cfg)
                   ELSE [err |-> FALSE, modules |-> <<>>],
                   commitRank, changedRank)

\* what Version and ModuleVersions return for the result vs of versions:
\* [err, versions, cfg], cfg being the Config after the call
AnswerVersions(vs, onlyFirst) ==
    IF vs.err # "none" THEN [err |-> vs.err, versions |-> <<>>, cfg |-> vs.cfg]
    ELSE [err |-> "none",
          versions |-> IF onlyFirst THEN <<vs.versions[1]>> ELSE vs.versions,
          cfg |-> vs.cfg]

\* Version and ModuleVersions from the result found of findAllModules
AnswerModules(cfg, rp, found, onlyFirst) ==
    IF found.err THEN [err |-> "paths", versions |-> <<>>, cfg |-> cfg]
    ELSE AnswerVersions(versions(found.modules, <<>>, cfg, rp), onlyFirst)

\* Gotagger.Version
GotaggerVersion(cfg, files, rp) ==
    AnswerModules(cfg, rp,
                  IF ~cfg.IgnoreModules THEN findAllModules(files, <<>>, cfg)
                  ELSE [err |-> FALSE, modules |-> <<>>],
                  TRUE)

\* Gotagger.ModuleVersions(names...)
ModuleVersions(cfg, files, rp, names) ==
    AnswerModules(cfg, rp, findAllModules(files, names, cfg), FALSE)

\* the tags TagRepo hands to DeleteTags when a creation or the push fails
RollbackTags_AllButLast(created) == SubSeq(created, 1, Len(created) - 1)

RollbackTags_AllVersions(created) == run.versions

RollbackTags(created) == created

\* the tags TagRepo hands to PushTags once the creation loop has ended
PushedTags_LastOnly(created) == <<created[Len(created)]>>

PushedTags(created) == created

\* Repository.DeleteTags(names): git tag -d for each name; okFlags[i] tells
\* whether git can delete the i-th name.  The result is [tags, err].
DeleteTags(tags, names, okFlags) ==
    LET deleted(i) == okFlags[i] /\ names[i] \in TagNames(tags)
                          /\ \A j \in 1..(i - 1) : names[j] # names[i]
    IN  [tags |-> {t \in tags : ~\E i \in DOMAIN names : names[i] = t.name /\ deleted(i)},
         err |-> \E i \in DOMAIN names : ~deleted(i)]

(***************************************************************************)
(* Inputs of the increment specification                                   *)
(***************************************************************************)
JsonTokens == {"", "none", "patch", "minor", "major", "bogus"}

PartialFunctions(K, V) == UNION {[S -> V] : S \in SUBSET K}

\* an Increment is an int: a caller can assign a value that is none of the
\* four named ones
IncrementUnknown == 4

\* the token a configuration file would use for an increment
IncrementToken(inc) == <<"none", "patch", "minor", "major">>[inc + 1]

\* cfgSource records what the configuration asked for: where it came from,
\* whether it supplied no mapping at all, the types it mapped explicitly and
\* the default increment it named ("" when it named none)
NoSource == [kind |-> "default", nilMap |-> TRUE, keys |-> {}, defTok |-> ""]

NoArgs == [v |-> Version(0, 0, 0), commits |-> <<>>, isDirty |-> FALSE]

NoValArgs == [commitModules |-> <<>>, changedModules |-> <<>>]

EmptyRepo == [history |-> <<>>, tags |-> {}, dirty |-> FALSE]

NoRun == [versions |-> <<>>, hash |-> NoHash, created |-> <<>>]

NoRet == [err |-> "pending", detail |-> NoError, versions |-> <<>>, delErr |-> FALSE]

NoModules == [err |-> FALSE, modules |-> <<>>]

NoAnswer ==
    [op |-> "none", names |-> <<>>, files |-> <<>>, cfg |-> NewDefaultConfig,
     err |-> "none", versions |-> <<>>]

ModIdle ==
    /\ discovered = NoModules
    /\ declared = NoModules
    /\ grouped = <<>>
    /\ resolved = <<>>

\* nothing outside the increment, validation and tagging steps has run
ExtIdle == ModIdle /\ (/\ callerCfg = NewDefaultConfig
                       /\ answer = NoAnswer
                       /\ ncalls = 0
                       /\ rival = {})

\* no TagRepo call is under way
TagIdle ==
    /\ worktree = <<>>
    /\ gitRepo = EmptyRepo
    /\ remoteTags = {}
    /\ run = NoRun
    /\ ret = NoRet
    /\ calls = <<>>

(***************************************************************************)
(* The increment specification: a Gotagger is constructed, configured from *)
(* a JSON document or through the Config fields, and incrementVersion is   *)
(* applied to a base version and a commit list.                            *)
(***************************************************************************)
InitInc ==
    /\ Config = NewDefaultConfig
    /\ cfgSource = NoSource
    /\ pc = "new"
    /\ incArgs = NoArgs
    /\ incResult = Version(0, 0, 0)
    /\ valArgs = NoValArgs
    /\ valResult = NoError
    /\ TagIdle
    /\ ExtIdle

\* cmd/gotagger: no configuration file, the default configuration is used
UseDefaultConfig ==
    /\ pc = "new"
    /\ pc' = "configured"
    /\ UNCHANGED <<Config, cfgSource, incVars, valVars, tagVars, extVars>>

LoadJSON ==
    /\ pc = "new"
    /\ \E data \in ([malformed : {FALSE},
                     DefaultIncrement : JsonTokens,
                     IncrementDirtyWorktree : JsonTokens,
                     ExcludeModules : {<<>>},
                     IgnoreModules : {FALSE},
                     IncrementMappings :
                         PartialFunctions({TypeFeature, TypeBugFix, TypeRelease},
                                          JsonTokens),
                     IncrementPreReleaseMinor : BOOLEAN,
                     VersionPrefix : {[set |-> FALSE, val |-> <<>>]}]
                    \cup
                    [malformed : {TRUE},
                     DefaultIncrement : {""},
                     IncrementDirtyWorktree : {""},
                     ExcludeModules : {<<>>},
                     IgnoreModules : {FALSE},
                     IncrementMappings : {<<>>},
                     IncrementPreReleaseMinor : {FALSE},
                     VersionPrefix : {[set |-> FALSE, val |-> <<>>]}]) :
          LET r == ParseJSON(Config, data)
          IN  /\ Config' = r.cfg
              /\ pc' = IF r.err THEN "rejected" ELSE "configured"
              /\ cfgSource' = [kind |-> "json",
                               nilMap |-> DOMAIN data.IncrementMappings = {},
                               keys |-> DOMAIN data.IncrementMappings,
                               defTok |-> data.DefaultIncrement]
    /\ UNCHANGED <<incVars, valVars, tagVars, extVars>>

\* a library caller assigns Config.CommitTypeTable, Config.PreMajor and
\* Config.DirtyWorktreeIncrement
SetTable ==
    /\ pc = "new"
    /\ \E tm \in {NilMapper} \cup
                   {MakeMapper(f) :
                       f \in PartialFunctions({TypeFeature, TypeRelease}, Increments)},
          defInc \in Increments, preMajor \in BOOLEAN,
          dirtyInc \in {IncrementNone, IncrementMajor, IncrementUnknown} :
          /\ Config' = [Config EXCEPT !.CommitTypeTable = NewTable(tm, defInc),
                                      !.PreMajor = preMajor,
                                      !.DirtyWorktreeIncrement = dirtyInc]
          /\ cfgSource' = [kind |-> "api", nilMap |-> tm.nil,
                           keys |-> DOMAIN tm.m, defTok |-> IncrementToken(defInc)]
    /\ pc' = "configured"
    /\ UNCHANGED <<incVars, valVars, tagVars, extVars>>

IncrementVersion ==
    /\ pc = "configured"
    /\ \E v \in {Version(0, 1, 0), Version(1, 0, 0), Version(1, 2, 3)},
          commits \in UNION {[1..n -> [Type : CommitTypes, Breaking : BOOLEAN]] :
                                n \in 0..MaxCommits},
          isDirty \in BOOLEAN :
          /\ incArgs' = [v |-> v, commits |-> commits, isDirty |-> isDirty]
          /\ incResult' = incrementVersion(v, commits, isDirty, Config)
    /\ pc' = "done"
    /\ UNCHANGED <<Config, cfgSource, valVars, tagVars, extVars>>

NextInc == UseDefaultConfig \/ LoadJSON \/ SetTable \/ IncrementVersion

SpecInc == InitInc /\ [][NextInc]_vars

(***************************************************************************)
(* The validator specification: validateCommitModules is applied to two    *)
(* slices of modules, as TestGotagger_validateModules does.                *)
(***************************************************************************)
MaxModules == 2

ModuleLists == UNION {[1..n -> ({Module(Str_dot, Str_foo, <<>>),
                                 Module(Str_bar, Str_bar, Str_bar_slash),
                                 Module(Str_baz, Str_baz, <<98, 97, 122, 47>>),
                                 Module(Str_bar, Str_foo_bar, Str_bar_slash)})] : n \in 0..MaxModules}

InitVal ==
    /\ Config = NewDefaultConfig
    /\ cfgSource = NoSource
    /\ pc = "new"
    /\ incArgs = NoArgs
    /\ incResult = Version(0, 0, 0)
    /\ valArgs \in [commitModules : ModuleLists, changedModules : ModuleLists]
    /\ valResult = NoError
    /\ TagIdle
    /\ ExtIdle

ValidateCommitModules ==
    /\ pc = "new"
    /\ \E commitIter \in KeyOrders(NameSet(valArgs.commitModules)),
          changedIter \in KeyOrders(NameSet(valArgs.changedModules)) :
          valResult' = validateCommitModules(valArgs.commitModules,
                                             valArgs.changedModules,
                                             commitIter, changedIter)
    /\ pc' = "done"
    /\ UNCHANGED <<Config, cfgSource, incVars, valArgs, tagVars, extVars>>

NextVal == ValidateCommitModules

SpecVal == InitVal /\ [][NextVal]_vars

(***************************************************************************)
(* The tagging specification: TagRepo runs on a repository with a worktree *)
(* of go.mod files.  A run is a sequence of steps: the resolution up to    *)
(* the decision to tag, one step per CreateTag, and the push; a failed     *)
(* step includes the rollback.  calls records the collaborator calls that  *)
(* change the repository, in order.                                        *)
(***************************************************************************)
Str_f == <<102>>

Str_bar_f == Str_bar_slash \o Str_f

Str_v100 == Str_v \o VersionString(Version(1, 0, 0))

GoMod(path, name) == [path |-> path, name |-> name]

\* the go.mod files in the order filepath.Walk reaches them: bar/go.mod
\* comes before go.mod
Worktrees ==
    {<<>>,
     <<GoMod(Str_bar, Str_foo_bar)>>,
     <<GoMod(Str_bar, Str_foo_bar), GoMod(Str_dot, Str_foo)>>}

Change(src, dst) == [SourceName |-> src, DestName |-> dst]

Footer(text) == [Title |-> "Modules", Text |-> text]

Commit(hash, type, footers, changes) ==
    [Hash |-> hash, Type |-> type, Breaking |-> FALSE,
     Footers |-> footers, Changes |-> changes]

HeadTypes == {TypeRelease, TypeFeature}

FirstCommit ==
    Commit(1, TypeFeature, <<>>, <<Change(Str_f, <<>>), Change(Str_bar_f, <<>>)>>)

Tag(name, at) == [name |-> name, at |-> at]

InitTag ==
    /\ \E createTag, pushTag, force, ignoreModules \in BOOLEAN :
          Config = [NewDefaultConfig EXCEPT !.CreateTag = createTag,
                                            !.PushTag = pushTag,
                                            !.Force = force,
                                            !.IgnoreModules = ignoreModules]
    /\ cfgSource = NoSource
    /\ pc = "new"
    /\ incArgs = NoArgs
    /\ incResult = Version(0, 0, 0)
    /\ valArgs = NoValArgs
    /\ valResult = NoError
    /\ worktree \in Worktrees
    /\ \E t \in HeadTypes,
          fs \in {<<>>,
                  <<Footer(Str_foo)>>,
                  <<Footer(Str_foo_bar)>>,
                  <<Footer(Str_foo_bar \o <<Byte_comma, Byte_space>> \o Str_foo)>>,
                  <<Footer(Str_baz)>>},
          ch \in {<<Change(Str_f, <<>>)>>,
                  <<Change(Str_bar_f, <<>>)>>,
                  <<Change(Str_f, <<>>), Change(Str_bar_f, <<>>)>>,
                  <<Change(Str_f, Str_bar_f)>>},
          tags \in {{}, {Tag(Str_v100, 1), Tag(Str_bar_slash \o Str_v100, 1)}},
          dirty \in BOOLEAN :
          \E history \in
                {<<Commit(1, t, fs, ch)>>,
                 <<FirstCommit, Commit(2, t, fs, ch)>>,
                 <<FirstCommit,
                   Commit(2, TypeFeature, <<>>, <<Change(Str_bar_f, <<>>)>>),
                   Commit(3, t, fs, ch)>>} :
              gitRepo = [history |-> history, tags |-> tags, dirty |-> dirty]
    /\ remoteTags = {}
    /\ run = NoRun
    /\ ret = NoRet
    /\ calls = <<>>
    /\ ExtIdle

Call(op, names, ok) == [op |-> op, names |-> names, ok |-> ok]

WorktreeNames == {worktree[i].name : i \in DOMAIN worktree}

\* TagRepo from its entry to the decision to tag
TagRepoBegin ==
    /\ pc = "new"
    /\ \E commitRank \in KeyOrders(WorktreeNames),
          changedRank \in KeyOrders(WorktreeNames) :
          LET r == TagRepoResolve(Config, worktree, gitRepo, commitRank, changedRank)
          IN  /\ Config' = r.cfg
              /\ IF r.err # "none"
                 THEN /\ pc' = "returned"
                      /\ ret' = [err |-> r.err, detail |-> r.detail,
                                 versions |-> <<>>, delErr |-> FALSE]
                      /\ run' = run
                 ELSE IF r.tag
                 THEN /\ pc' = "create"
                      /\ ret' = ret
                      /\ run' = [versions |-> r.versions, hash |-> r.hash,
                                 created |-> <<>>]
                 ELSE /\ pc' = "returned"
                      /\ ret' = [err |-> "none", detail |-> NoError,
                                 versions |-> r.versions, delErr |-> FALSE]
                      /\ run' = [versions |-> r.versions, hash |-> r.hash,
                                 created |-> <<>>]
    /\ UNCHANGED <<cfgSource, incVars, valVars, extVars, worktree, gitRepo, remoteTags, calls>>

\* one iteration of the creation loop in which CreateTag succeeds
CreateTagOk ==
    /\ pc = "create"
    /\ LET ver == run.versions[Len(run.created) + 1]
           created == Append(run.created, ver)
       IN  /\ ver \notin TagNames(gitRepo.tags)
           /\ gitRepo' = [gitRepo EXCEPT !.tags = @ \cup {Tag(ver, run.hash)}]
           /\ calls' = Append(calls, Call("createTag", <<ver>>, TRUE))
           /\ run' = [run EXCEPT !.created = created]
           /\ IF Len(created) < Len(run.versions)
              THEN pc' = "create" /\ ret' = ret
              ELSE IF Config.PushTag
              THEN pc' = "push" /\ ret' = ret
              ELSE /\ pc' = "returned"
                   /\ ret' = [err |-> "none", detail |-> NoError,
                              versions |-> run.versions, delErr |-> FALSE]
    /\ UNCHANGED <<Config, cfgSource, incVars, valVars, extVars, worktree, remoteTags>>

\* one iteration of the creation loop in which CreateTag fails (the name
\* exists, or git fails), with the clean up of the tags created so far
CreateTagFail ==
    /\ pc = "create"
    /\ LET ver == run.versions[Len(run.created) + 1]
           doomed == RollbackTags(run.created)
       IN  \E okFlags \in [DOMAIN doomed -> BOOLEAN] :
              LET d == DeleteTags(gitRepo.tags, doomed, okFlags)
              IN  /\ gitRepo' = [gitRepo EXCEPT !.tags = d.tags]
                  /\ calls' = calls \o <<Call("createTag", <<ver>>, FALSE),
                                         Call("deleteTags", doomed, ~d.err)>>
                  /\ ret' = [err |-> "createTag", detail |-> NoError,
                             versions |-> <<>>, delErr |-> d.err]
    /\ pc' = "returned"
    /\ UNCHANGED <<Config, cfgSource, incVars, valVars, extVars, worktree, remoteTags, run>>

PushTagsOk ==
    /\ pc = "push"
    /\ remoteTags' = remoteTags \cup {PushedTags(run.created)[i] : i \in DOMAIN PushedTags(run.created)}
    /\ calls' = Append(calls, Call("pushTags", PushedTags(run.created), TRUE))
    /\ ret' = [err |-> "none", detail |-> NoError,
               versions |-> run.versions, delErr |-> FALSE]
    /\ pc' = "returned"
    /\ UNCHANGED <<Config, cfgSource, incVars, valVars, extVars, worktree, gitRepo, run>>

\* the push fails: pushes are not atomic, so any of the tags may have
\* reached the remote; the local tags of the run are deleted
PushTagsFail ==
    /\ pc = "push"
    /\ LET doomed == RollbackTags(run.created)
       IN  \E pushed \in SUBSET {PushedTags(run.created)[i] : i \in DOMAIN PushedTags(run.created)},
              okFlags \in [DOMAIN doomed -> BOOLEAN] :
              LET d == DeleteTags(gitRepo.tags, doomed, okFlags)
              IN  /\ pushed # {PushedTags(run.created)[i] : i \in DOMAIN PushedTags(run.created)}
                  /\ remoteTags' = remoteTags \cup pushed
                  /\ gitRepo' = [gitRepo EXCEPT !.tags = d.tags]
                  /\ calls' = calls \o <<Call("pushTags", PushedTags(run.created), FALSE),
                                         Call("deleteTags", doomed, ~d.err)>>
                  /\ ret' = [err |-> "pushTags", detail |-> NoError,
                             versions |-> <<>>, delErr |-> d.err]
    /\ pc' = "returned"
    /\ UNCHANGED <<Config, cfgSource, incVars, valVars, extVars, worktree, run>>

NextTag == TagRepoBegin \/ CreateTagOk \/ CreateTagFail \/ PushTagsOk \/ PushTagsFail

SpecTag == InitTag /\ [][NextTag]_vars

(***************************************************************************)
(* The module specification: findAllModules runs on a worktree, then       *)
(* extractCommitModules on the HEAD commit and the modules found.          *)
(***************************************************************************)
Str_gomod == <<103, 111, 46, 109, 111, 100>>

Str_v2 == <<118, 50>>

Str_bar_v2 == Str_bar_slash \o Str_v2

Str_a_b == <<97, 47, 98>>

Str_a_bc == <<97, 45, 98, 99>>

Str_foo_slash == Str_foo \o <<Byte_slash>>

\* the names filepath.Walk meets on the way to the go.mod of the directory p
WalkKey(p) ==
    IF p = Str_dot THEN <<Str_gomod>> ELSE Split(p, Byte_slash) \o <<Str_gomod>>

\* filepath.Walk reaches the entries of a directory in lexical order
RECURSIVE WalkLess(_, _)
WalkLess(a, b) ==
    IF a = <<>> \/ b = <<>> THEN FALSE
    ELSE IF a[1] # b[1] THEN StrLess(a[1], b[1])
    ELSE WalkLess(Tail(a), Tail(b))

RECURSIVE WalkInsert(_, _)
WalkInsert(f, s) ==
    IF s = <<>> THEN <<f>>
    ELSE IF WalkLess(WalkKey(f.path), WalkKey(s[1].path)) THEN <<f>> \o s
    ELSE <<s[1]>> \o WalkInsert(f, Tail(s))

\* the go.mod files of the set F in the order of the walk
RECURSIVE WalkOrder(_)
WalkOrder(F) ==
    IF F = {} THEN <<>>
    ELSE LET f == CHOOSE x \in F : TRUE
         IN  WalkInsert(f, WalkOrder(F \ {f}))

InitMod ==
    /\ Config = NewDefaultConfig
    /\ cfgSource = NoSource
    /\ pc = "new"
    /\ incArgs = NoArgs
    /\ incResult = Version(0, 0, 0)
    /\ valArgs = NoValArgs
    /\ valResult = NoError
    /\ \E F \in SUBSET ({GoMod(Str_dot, Str_foo),
                         GoMod(Str_v2, Str_foo_slash \o Str_v2),
                         GoMod(Str_bar, Str_foo_bar),
                         GoMod(Str_bar_v2, Str_foo_slash \o Str_bar_v2),
                         GoMod(Str_a_b, Str_foo_slash \o Str_a_b),
                         GoMod(Str_a_bc, Str_foo_slash \o Str_a_bc)}) : worktree = WalkOrder(F)
    /\ \/ \E fs \in {<<>>,
                     <<Footer(Str_foo)>>,
                     <<Footer(Str_foo_bar \o <<Byte_comma, Byte_space>> \o Str_foo)>>,
                     <<Footer(Str_foo \o <<Byte_comma>> \o Str_foo)>>,
                     <<Footer(Str_foo_bar), Footer(Str_foo)>>,
                     <<Footer(Str_foo), Footer(Str_foo_bar \o <<Byte_comma>> \o Str_foo)>>,
                     <<Footer(Str_baz)>>,
                     <<[Title |-> "Signed-off-by", Text |-> Str_foo]>>},
             ch \in {<<>>,
                     <<Change(Str_f, <<>>)>>,
                     <<Change(Str_bar_f, <<>>)>>,
                     <<Change(Str_bar_v2 \o <<Byte_slash>> \o Str_f, <<>>)>>,
                     <<Change(Str_f, <<>>), Change(Str_bar_f, <<>>)>>,
                     <<Change(Str_bar_f, <<>>),
                       Change(Str_bar_slash \o Str_bar_f, <<>>)>>,
                     <<Change(Str_f, Str_bar_f)>>,
                     <<Change(Str_bar_f, Str_f)>>} :
             gitRepo = [EmptyRepo EXCEPT
                           !.history = <<FirstCommit, Commit(2, TypeRelease, fs, ch)>>]
       \/ LET name(prefix, ma, mi, pa, pre) ==
                   prefix \o Str_v
                       \o VersionString([Version(ma, mi, pa) EXCEPT !.pre = pre])
               rc1 == <<114, 99, 49>>
           IN  \E names \in {{name(<<>>, 0, 1, 0, <<>>), name(<<>>, 1, 2, 0, <<>>),
                               name(<<>>, 2, 0, 0, <<>>)},
                              {name(<<>>, 1, 2, 0, <<>>), name(<<>>, 2, 0, 0, rc1)},
                              {name(<<>>, 2, 1, 0, <<>>), name(<<>>, 3, 0, 0, rc1)},
                              {name(Str_bar_slash, 1, 0, 0, <<>>),
                               name(Str_bar_slash, 2, 1, 0, <<>>),
                               name(<<>>, 1, 0, 0, <<>>), name(<<>>, 3, 0, 0, <<>>)},
                              {name(<<>>, 2, 0, 0, rc1)}},
                  ch \in {<<Change(Str_f, <<>>)>>, <<Change(Str_bar_f, <<>>)>>},
                  t \in {TypeFeature, TypeBugFix},
                  dirty \in BOOLEAN :
                  gitRepo = [history |-> <<FirstCommit, Commit(2, t, <<>>, ch)>>,
                             tags |-> {Tag(n, 1) : n \in names},
                             dirty |-> dirty]
    /\ remoteTags = {}
    /\ run = NoRun
    /\ ret = NoRet
    /\ calls = <<>>
    /\ ExtIdle

FindAllModules ==
    /\ pc = "new"
    /\ discovered' = findAllModules(worktree, <<>>, Config)
    /\ pc' = "found"
    /\ UNCHANGED <<Config, cfgSource, incVars, valVars, tagVars, apiVars, rival,
                   declared, grouped, resolved>>

\* TagRepo calls extractCommitModules when there are modules
ExtractCommitModules ==
    /\ pc = "found"
    /\ Len(discovered.modules) > 0
    /\ declared' = extractCommitModules(RepoHead(gitRepo).c, discovered.modules)
    /\ pc' = "extracted"
    /\ UNCHANGED <<Config, cfgSource, incVars, valVars, tagVars, apiVars, rival,
                   discovered, grouped, resolved>>

\* TagRepo validates HEAD against the modules its footers declare
ValidateCommit ==
    /\ pc = "extracted"
    /\ ~declared.err
    /\ LET changedModules == ChangedModules(RepoHead(gitRepo).c.Changes,
                                            mapModulesByPath(discovered.modules))
       IN  /\ valArgs' = [commitModules |-> declared.modules,
                          changedModules |-> changedModules]
           /\ \E commitRank \in KeyOrders(NameSet(declared.modules)),
                 changedRank \in KeyOrders(NameSet(changedModules)) :
                 valResult' = validateCommit(RepoHead(gitRepo).c, discovered.modules,
                                             declared.modules, commitRank, changedRank)
    /\ pc' = "validated"
    /\ UNCHANGED <<Config, cfgSource, incVars, tagVars, extVars>>

\* versionsModules, for every module: the commits below HEAD that touch the
\* module's path, grouped by module.  Version comes here from findAllModules,
\* TagRepo from a validation without error.
GroupCommitsByModule ==
    /\ \/ pc = "found"
       \/ pc = "validated" /\ ~valResult.failed
    /\ Len(discovered.modules) > 0
    /\ grouped' = [i \in DOMAIN discovered.modules |->
                      groupCommitsByModule(
                          RevList(gitRepo, NoHash, discovered.modules[i].path),
                          discovered.modules, discovered.modules[i])]
    /\ pc' = "grouped"
    /\ UNCHANGED <<Config, cfgSource, incVars, valVars, tagVars, apiVars, rival,
                   discovered, declared, resolved>>

\* versionsModules for all modules: for every module the latest version
\* latestModule finds among the module's tags, and the version returned
VersionsModules ==
    /\ pc = "found"
    /\ Len(discovered.modules) > 0
    /\ resolved' =
          [i \in DOMAIN discovered.modules |->
              [base |-> latestModule(
                            gitRepo,
                            RepoTags(gitRepo,
                                     discovered.modules[i].prefix \o Config.VersionPrefix),
                            discovered.modules[i]),
               version |-> versionOfModule(discovered.modules[i], discovered.modules,
                                           Config, gitRepo)]]
    /\ pc' = "versioned"
    /\ UNCHANGED <<Config, cfgSource, incVars, valVars, tagVars, apiVars, rival,
                   discovered, declared, grouped>>

NextMod ==
    \/ FindAllModules
    \/ ExtractCommitModules
    \/ ValidateCommit
    \/ GroupCommitsByModule
    \/ VersionsModules

SpecMod == InitMod /\ [][NextMod]_vars

(***************************************************************************)
(* The resolver specification: a caller makes up to MaxCalls calls of      *)
(* Version, ModuleVersions and TagRepo (with CreateTag unset) on one       *)
(* Gotagger; between the calls it may assign Config.IgnoreModules and the  *)
(* worktree may gain a go.mod.  callerCfg is the Config as the caller      *)
(* assigned it, answer the last call and what it returned.                 *)
(***************************************************************************)
MaxCalls == 2

Str_v110 == Str_v \o VersionString(Version(1, 1, 0))

InitApi ==
    /\ \E ignoreModules \in BOOLEAN, prefix \in {Str_v, <<>>} :
          Config = [NewDefaultConfig EXCEPT !.IgnoreModules = ignoreModules,
                                            !.VersionPrefix = prefix]
    /\ callerCfg = Config
    /\ cfgSource = NoSource
    /\ pc = "api"
    /\ incArgs = NoArgs
    /\ incResult = Version(0, 0, 0)
    /\ valArgs = NoValArgs
    /\ valResult = NoError
    /\ worktree \in Worktrees
    /\ \E t \in HeadTypes,
          fs \in {<<>>, <<Footer(Str_foo_bar)>>},
          ch \in {<<Change(Str_f, <<>>)>>, <<Change(Str_bar_f, <<>>)>>},
          tags \in {{},
                    {Tag(Str_v100, 1), Tag(Str_bar_slash \o Str_v100, 1)},
                    {Tag(Str_v100, 1), Tag(Str_v110, 2),
                     Tag(Str_bar_slash \o Str_v100, 2)},
                    {Tag(Str_v110, 1), Tag(Str_v100, 2)},
                    {Tag(Str_v100, 1), Tag(VersionString(Version(0, 2, 0)), 1)},
                    {Tag(Str_v \o VersionString(Version(0, 0, 0)), 2)}},
          dirty \in BOOLEAN :
          gitRepo = [history |-> <<FirstCommit, Commit(2, t, fs, ch)>>,
                     tags |-> tags, dirty |-> dirty]
    /\ remoteTags = {}
    /\ run = NoRun
    /\ ret = NoRet
    /\ calls = <<>>
    /\ ModIdle
    /\ answer = NoAnswer
    /\ ncalls = 0
    /\ rival = {}

\* no call has ended in a panic: the caller's process is running
Alive == answer.err # "panic"

\* a call, the worktree and the caller's Config it ran on, what it returned
Answer(op, names, r) ==
    [op |-> op, names |-> names, files |-> worktree, cfg |-> callerCfg,
     err |-> r.err, versions |-> r.versions]

CallVersion ==
    /\ Alive
    /\ ncalls < MaxCalls
    /\ LET r == GotaggerVersion(Config, worktree, gitRepo)
       IN  /\ Config' = r.cfg
           /\ answer' = Answer("Version", <<>>, r)
    /\ ncalls' = ncalls + 1
    /\ UNCHANGED <<cfgSource, pc, incVars, valVars, tagVars, modVars, callerCfg, rival>>

CallModuleVersions ==
    /\ Alive
    /\ ncalls < MaxCalls
    /\ \E names \in ({<<>>, <<Str_foo>>, <<Str_foo_bar>>, <<Str_baz>>, <<Str_foo, Str_baz>>}) :
          LET r == ModuleVersions(Config, worktree, gitRepo, names)
          IN  /\ Config' = r.cfg
              /\ answer' = Answer("ModuleVersions", names, r)
    /\ ncalls' = ncalls + 1
    /\ UNCHANGED <<cfgSource, pc, incVars, valVars, tagVars, modVars, callerCfg, rival>>

\* TagRepo with CreateTag unset: the call ends at the decision to tag
CallTagRepo ==
    /\ Alive
    /\ ncalls < MaxCalls
    /\ \E commitRank \in KeyOrders(WorktreeNames),
          changedRank \in KeyOrders(WorktreeNames) :
          LET r == TagRepoResolve(Config, worktree, gitRepo, commitRank, changedRank)
          IN  /\ Config' = r.cfg
              /\ answer' = Answer("TagRepo", <<>>, r)
    /\ ncalls' = ncalls + 1
    /\ UNCHANGED <<cfgSource, pc, incVars, valVars, tagVars, modVars, callerCfg, rival>>

\* the caller assigns Config.IgnoreModules
SetIgnoreModules ==
    /\ Alive
    /\ \E b \in BOOLEAN :
          /\ b # callerCfg.IgnoreModules
          /\ Config' = [Config EXCEPT !.IgnoreModules = b]
          /\ callerCfg' = [callerCfg EXCEPT !.IgnoreModules = b]
    /\ UNCHANGED <<cfgSource, pc, incVars, valVars, tagVars, modVars, answer, ncalls, rival>>

\* a go.mod is added to the worktree
AddGoMod ==
    /\ \E f \in {GoMod(Str_dot, Str_foo), GoMod(Str_bar, Str_foo_bar)} :
          /\ \A i \in DOMAIN worktree : worktree[i] # f
          /\ worktree' = WalkOrder({worktree[i] : i \in DOMAIN worktree} \cup {f})
    /\ UNCHANGED <<Config, cfgSource, pc, incVars, valVars, extVars,
                   gitRepo, remoteTags, run, ret, calls>>

NextApi ==
    CallVersion \/ CallModuleVersions \/ CallTagRepo \/ SetIgnoreModules \/ AddGoMod

SpecApi == InitApi /\ [][NextApi]_vars

(***************************************************************************)
(* The runs specification: a TagRepo run with CreateTag set, during which  *)
(* another process may create a tag the run is about to create, and after  *)
(* which the next run resolves the versions again.  rival holds the tags   *)
(* of the other process, resolved what the next run finds for each unit    *)
(* the first run tagged.                                                   *)
(***************************************************************************)
InitRuns ==
    /\ \E pushTag, force, ignoreModules \in BOOLEAN,
          prefix \in {Str_v, <<>>},
          defInc \in {IncrementPatch, IncrementNone} :
          Config = [NewDefaultConfig EXCEPT !.CreateTag = TRUE,
                                            !.PushTag = pushTag,
                                            !.Force = force,
                                            !.IgnoreModules = ignoreModules,
                                            !.VersionPrefix = prefix,
                                            !.CommitTypeTable = NewTable(NilMapper, defInc)]
    /\ cfgSource = NoSource
    /\ pc = "new"
    /\ incArgs = NoArgs
    /\ incResult = Version(0, 0, 0)
    /\ valArgs = NoValArgs
    /\ valResult = NoError
    /\ worktree \in Worktrees \cup {WalkOrder({GoMod(Str_dot, Str_foo),
                                               GoMod(Str_v2, Str_foo_slash \o Str_v2)})}
    /\ \E t \in {TypeRelease, TypeBugFix},
          head \in {[fs |-> <<>>, ch |-> <<Change(Str_f, <<>>)>>],
                    [fs |-> <<Footer(Str_foo_bar \o <<Byte_comma, Byte_space>> \o Str_foo)>>,
                     ch |-> <<Change(Str_f, <<>>), Change(Str_bar_f, <<>>)>>]},
          tags \in {{}, {Tag(Str_v100, 1), Tag(Str_bar_slash \o Str_v100, 1)}},
          dirty \in BOOLEAN :
          gitRepo = [history |-> <<Commit(1, TypeBugFix, <<>>,
                                          <<Change(Str_f, <<>>), Change(Str_bar_f, <<>>)>>),
                                   Commit(2, t, head.fs, head.ch)>>,
                     tags |-> tags, dirty |-> dirty]
    /\ remoteTags = {}
    /\ run = NoRun
    /\ ret = NoRet
    /\ calls = <<>>
    /\ ExtIdle

\* another process runs CreateTag for a name the run has resolved and not
\* yet created
RivalCreatesTag ==
    /\ pc = "create"
    /\ \E i \in (Len(run.created) + 1)..Len(run.versions) :
          /\ run.versions[i] \notin TagNames(gitRepo.tags)
          /\ gitRepo' = [gitRepo EXCEPT !.tags = @ \cup {Tag(run.versions[i], run.hash)}]
          /\ rival' = rival \cup {Tag(run.versions[i], run.hash)}
    /\ UNCHANGED <<Config, cfgSource, pc, incVars, valVars, modVars, apiVars,
                   worktree, remoteTags, run, ret, calls>>

\* what the next run finds without modules: lat is the result of latest,
\* the version is versionPath's with Paths defaulted to the root path
ResolvedPath(cfg, rp, lat) ==
    [base |-> lat,
     version |-> versionPathFrom(Str_dot, [cfg EXCEPT !.Paths = <<Str_dot>>], rp, lat)]

\* what the next run finds for module mod: lat is the result of latestModule
ResolvedModule(mod, modules, cfg, rp, prefix, lat) ==
    [base |-> lat,
     version |-> versionOfModuleFrom(mod, modules, cfg, rp, prefix, lat)]

\* what the next run finds for the units; tagNames are the tags listed for
\* the version prefix
ResolvedUnits(cfg, rp, modules, targets, tagNames) ==
    IF Len(modules) = 0
    THEN <<ResolvedPath(cfg, rp,
                        latest(rp,
                               IF cfg.VersionPrefix = <<>>
                               THEN SelectSeq(tagNames, LAMBDA tag : IsDigit(tag[1]))
                               ELSE tagNames,
                               cfg.VersionPrefix))>>
    ELSE [i \in DOMAIN targets |->
             ResolvedModule(targets[i], modules, cfg, rp,
                            targets[i].prefix \o cfg.VersionPrefix,
                            latestModule(rp,
                                         RepoTags(rp, targets[i].prefix \o cfg.VersionPrefix),
                                         targets[i]))]

\* the units are the modules the HEAD commit declares, all modules when it
\* declares none
ResolvedTargets(cfg, rp, modules, commitModules) ==
    ResolvedUnits(cfg, rp, modules,
                  IF Len(commitModules) = 0 THEN modules ELSE commitModules,
                  RepoTags(rp, cfg.VersionPrefix))

ResolvedFrom(cfg, rp, modules) ==
    ResolvedTargets(cfg, rp, modules,
                    IF Len(modules) > 0
                    THEN extractCommitModules(RepoHead(rp).c, modules).modules
                    ELSE <<>>)

\* the next run, a new process with the same configuration, resolves the
\* versions of the units the first run tagged
ResolveAgain ==
    /\ pc = "returned"
    /\ ret.err = "none"
    /\ run.created # <<>>
    /\ resolved' = ResolvedFrom([Config EXCEPT !.Paths = <<>>], gitRepo,
                                IF Config.IgnoreModules THEN <<>>
                                ELSE findAllModules(worktree, <<>>,
                                                    [Config EXCEPT !.Paths = <<>>]).modules)
    /\ pc' = "resolved"
    /\ UNCHANGED <<Config, cfgSource, incVars, valVars, tagVars, apiVars, rival,
                   discovered, declared, grouped>>

NextRuns ==
    \/ TagRepoBegin
    \/ CreateTagOk
    \/ CreateTagFail
    \/ PushTagsOk
    \/ PushTagsFail
    \/ RivalCreatesTag
    \/ ResolveAgain

SpecRuns == InitRuns /\ [][NextRuns]_vars

(***************************************************************************)
(* Properties of the increment step                                        *)
(***************************************************************************)
Called == pc = "done"

Configured == pc \in {"configured", "done"}

HasBreaking == \E i \in DOMAIN incArgs.commits : incArgs.commits[i].Breaking

PreMajorApplies == Config.PreMajor /\ incArgs.v.major = 0

\* the increment that was applied, read off the base and the resolved version
ResolvedIncrement ==
    CASE incResult = Version(incArgs.v.major + 1, 0, 0) -> IncrementMajor
      [] incResult = Version(incArgs.v.major, incArgs.v.minor + 1, 0) -> IncrementMinor
      [] incResult = Version(incArgs.v.major, incArgs.v.minor, incArgs.v.patch + 1) -> IncrementPatch
      [] OTHER -> IncrementNone

ConfiguredIncrement(c) == Get(Config.CommitTypeTable, c.Type)

SetMax(S) == IF S = {} THEN IncrementNone ELSE CHOOSE x \in S : \A y \in S : y <= x

\* C1: a non-empty commit list with a breaking commit at any position, with
\* PreMajor disabled or a base major other than 0, resolves to a major
\* increment: base X.Y.Z becomes (X+1).0.0.
C1_BreakingIsMajor ==
    (Called /\ HasBreaking /\ ~PreMajorApplies)
        => incResult = Version(incArgs.v.major + 1, 0, 0)

C1_Witness ==
    /\ Called /\ HasBreaking /\ ~PreMajorApplies
    /\ Len(incArgs.commits) = 2
    /\ ~incArgs.commits[1].Breaking
    /\ incArgs.commits[2].Breaking
    /\ incArgs.v = Version(1, 2, 3)
    /\ incResult = Version(2, 0, 0)

\* C2: for a fixed base version, dirty flag and configuration, every
\* permutation of the commit list resolves to the same version.
C2_OrderIndependent ==
    Called =>
        \A p \in Permutations(DOMAIN incArgs.commits) :
            incrementVersion(incArgs.v,
                             [i \in DOMAIN incArgs.commits |-> incArgs.commits[p[i]]],
                             incArgs.isDirty, Config) = incResult

C2_Witness ==
    /\ Called
    /\ Len(incArgs.commits) = 2
    /\ ConfiguredIncrement(incArgs.commits[1]) = IncrementPatch
    /\ ConfiguredIncrement(incArgs.commits[2]) = IncrementMinor
    /\ ~HasBreaking
    /\ ResolvedIncrement = IncrementMinor

\* C7: with PreMajor enabled and a base major of 0, a commit list with a
\* breaking commit never resolves to a major increment, and the resolved
\* increment is at least the maximum configured increment among the
\* non-breaking commits.
C7_PreMajorAtLeastNonBreaking ==
    (Called /\ HasBreaking /\ PreMajorApplies)
        => /\ ResolvedIncrement # IncrementMajor
           /\ ResolvedIncrement >=
                  SetMax({ConfiguredIncrement(incArgs.commits[i]) :
                              i \in {j \in DOMAIN incArgs.commits :
                                         ~incArgs.commits[j].Breaking}})

\* the configurations the documentation allows: every mapped increment and
\* the default increment are none, patch or minor
DocumentedTable ==
    /\ Config.CommitTypeTable.defaultInc # IncrementMajor
    /\ \A t \in DOMAIN Config.CommitTypeTable.Mapper :
           Config.CommitTypeTable.Mapper[t] # IncrementMajor

C9_ReleaseIsPatch ==
    (Called /\ incArgs.commits = <<[Type |-> TypeRelease, Breaking |-> FALSE]>>)
        => incResult = Version(incArgs.v.major, incArgs.v.minor, incArgs.v.patch + 1)

C9_Witness ==
    /\ Called
    /\ incArgs.commits = <<[Type |-> TypeRelease, Breaking |-> FALSE]>>
    /\ TypeRelease \in DOMAIN Config.CommitTypeTable.Mapper
    /\ Config.CommitTypeTable.Mapper[TypeRelease] = IncrementMinor
    /\ Config.CommitTypeTable.defaultInc = IncrementNone
    /\ incArgs.v = Version(1, 2, 3)
    /\ incResult = Version(1, 2, 4)

\* the default increment the configuration asked for (patch when unset)
RequestedDefault ==
    CASE cfgSource.defTok = "none" -> IncrementNone
      [] cfgSource.defTok = "minor" -> IncrementMinor
      [] cfgSource.defTok = "major" -> IncrementMajor
      [] OTHER -> IncrementPatch

OneFeat == <<[Type |-> TypeFeature, Breaking |-> FALSE]>>

\* C10 as stated: a type the configuration does not map explicitly falls
\* back to minor for feat and to the configured default increment for every
\* other type; a feat commit after 1.0.0 gives 1.1.0 in any configuration
\* that does not remap feat (taken here over the tables the documentation
\* allows, which the claim includes).
C10_FeatFallsBackToMinor ==
    /\ (Configured /\ DocumentedTable) =>
           \A t \in CommitTypes \ (cfgSource.keys \cup {TypeRelease}) :
               Get(Config.CommitTypeTable, t)
                   = IF t = TypeFeature THEN IncrementMinor ELSE RequestedDefault
    /\ (Called /\ TypeFeature \notin cfgSource.keys
            /\ incArgs.v = Version(1, 0, 0) /\ incArgs.commits = OneFeat)
           => incResult = Version(1, 1, 0)

\* C10 amended: a type the configuration does not map explicitly falls back
\* to the configured default increment (patch when unset), also for the
\* empty type of a non-conventional commit, except that release is always
\* patch and that feat falls back to minor only when the configuration maps
\* no type at all (the built-in table is used only then).  So in the default
\* configuration a list without feat and breaking commits increments the
\* patch version, and a feat commit after 1.0.0 gives 1.1.0 when the
\* configuration maps no type at all, and 1.0.0 stepped by the default
\* increment when it maps other types only.
C10_FallbackToDefault ==
    /\ Configured =>
           \A t \in CommitTypes \ cfgSource.keys :
               Get(Config.CommitTypeTable, t)
                   = IF t = TypeRelease THEN IncrementPatch
                     ELSE IF t = TypeFeature /\ cfgSource.nilMap THEN IncrementMinor
                     ELSE RequestedDefault
    /\ (Called /\ cfgSource.kind = "default" /\ incArgs.commits # <<>>
            /\ \A i \in DOMAIN incArgs.commits :
                   /\ incArgs.commits[i].Type # TypeFeature
                   /\ ~incArgs.commits[i].Breaking)
           => ResolvedIncrement = IncrementPatch
    /\ (Called /\ TypeFeature \notin cfgSource.keys
            /\ incArgs.v = Version(1, 0, 0) /\ incArgs.commits = OneFeat)
           => incResult = IF cfgSource.nilMap THEN Version(1, 1, 0)
                          ELSE CASE RequestedDefault = IncrementMinor -> Version(1, 1, 0)
                                 [] RequestedDefault = IncrementPatch -> Version(1, 0, 1)
                                 [] OTHER -> Version(1, 0, 0)

C10_Witness ==
    /\ Called
    /\ cfgSource.kind = "json"
    /\ cfgSource.keys = {TypeBugFix}
    /\ cfgSource.defTok = ""
    /\ incArgs.v = Version(1, 0, 0)
    /\ incArgs.commits = OneFeat
    /\ incResult = Version(1, 0, 1)

(***************************************************************************)
(* Properties of the release validator                                     *)
(***************************************************************************)
DeclaredNames == {valArgs.commitModules[i].name : i \in DOMAIN valArgs.commitModules}

ChangedNames == {valArgs.changedModules[i].name : i \in DOMAIN valArgs.changedModules}

\* s lists exactly the names of S, each once, in ascending order
IsAscendingListOf(s, S) ==
    /\ {s[i] : i \in DOMAIN s} = S
    /\ \A i, j \in DOMAIN s : i < j => StrLess(s[i], s[j])

\* the sections an error must have for the extra set E and the missing set M
SectionsAre(msg, E, M) ==
    /\ Len(msg) = (IF E = {} THEN 0 ELSE 1) + (IF M = {} THEN 0 ELSE 1)
    /\ E # {} => /\ msg[1].label = "modules not changed by commit"
                 /\ IsAscendingListOf(msg[1].names, E)
    /\ M # {} => /\ msg[Len(msg)].label = "changed modules not released by commit"
                 /\ IsAscendingListOf(msg[Len(msg)].names, M)

\* C5: validateCommitModules returns no error exactly when the declared and
\* the changed module names are the same set; otherwise the error lists
\* declared minus changed as "modules not changed by commit" and changed
\* minus declared as "changed modules not released by commit", each sorted
\* ascending, the extras first.
C5_ValidationSymmetry ==
    Called =>
        /\ ~valResult.failed <=> DeclaredNames = ChangedNames
        /\ SectionsAre(valResult.msg, DeclaredNames \ ChangedNames,
                       ChangedNames \ DeclaredNames)

C5_Witness ==
    /\ Called
    /\ valResult.failed
    /\ Len(valResult.msg) = 2
    /\ valResult.msg[1].names = <<Str_bar, Str_foo>>
    /\ valResult.msg[2].names = <<Str_baz>>
    /\ valArgs.commitModules[1].name = Str_foo

(***************************************************************************)
(* Properties of TagRepo                                                   *)
(***************************************************************************)
Returned == pc = "returned"

HeadCommit == gitRepo.history[Len(gitRepo.history)]

CallsOf(op) == SelectSeq(calls, LAMBDA c : c.op = op)

\* the names of the tags the run created, in the order of creation
CreatedByRun ==
    LET ok == SelectSeq(calls, LAMBDA c : c.op = "createTag" /\ c.ok)
    IN  [i \in DOMAIN ok |-> ok[i].names[1]]

FailedWhileTagging == Returned /\ ret.err \in {"createTag", "pushTags"}

\* C3: when TagRepo returns an error because a createTag or the pushTags
\* failed, its last call is a deleteTags of exactly the tags the run created,
\* and if that deletion succeeded none of them is left in the local
\* repository.
C3_RollbackDeletesCreatedTags ==
    FailedWhileTagging =>
        /\ Len(calls) >= 2
        /\ calls[Len(calls)].op = "deleteTags"
        /\ calls[Len(calls)].names = CreatedByRun
        /\ Len(CallsOf("deleteTags")) = 1
        /\ ~ret.delErr =>
               \A i \in DOMAIN CreatedByRun :
                   CreatedByRun[i] \notin TagNames(gitRepo.tags)

C3_Witness ==
    /\ FailedWhileTagging
    /\ ret.err = "createTag"
    /\ Len(CreatedByRun) = 1
    /\ ~ret.delErr
    /\ CreatedByRun[1] \notin TagNames(gitRepo.tags)
    /\ calls[Len(calls)] = Call("deleteTags", CreatedByRun, TRUE)

\* the modules of the worktree, whether or not the configuration looks at them
WorktreeModules ==
    findAllModules(worktree, <<>>, [Config EXCEPT !.Paths = <<>>]).modules

HeadFooterNames ==
    LET footers == SelectSeq(HeadCommit.Footers, LAMBDA f : f.Title = "Modules")
        names == Flatten([i \in DOMAIN footers |-> FooterNames(footers[i])])
    IN  {names[i] : i \in DOMAIN names}

FooterNamesUnknownModule == HeadFooterNames \ NameSet(WorktreeModules) # {}

\* HEAD is a release commit whose declared modules are not the changed ones
DeclaredDiffersFromChanged ==
    /\ HeadCommit.Type = TypeRelease
    /\ WorktreeModules # <<>>
    /\ ~FooterNamesUnknownModule
    /\ NameSet(extractCommitModules(HeadCommit, WorktreeModules).modules)
          # NameSet(ChangedModules(HeadCommit.Changes,
                                   mapModulesByPath(WorktreeModules)))

NoTagCall == CallsOf("createTag") = <<>> /\ CallsOf("pushTags") = <<>>

\* C4 as stated: whenever HEAD is a release commit whose declared modules
\* differ from the changed ones, or a Modules footer names a module that does
\* not exist, TagRepo returns an error and never calls createTag or pushTags.
C4_ValidationPrecedesTagging ==
    (DeclaredDiffersFromChanged \/ FooterNamesUnknownModule) =>
        /\ NoTagCall
        /\ Returned => ret.err # "none"

\* module versioning is in effect: modules are not ignored and the worktree
\* has at least one
ModulesEnforced == ~Config.IgnoreModules /\ WorktreeModules # <<>>

\* C4 amended: when modules are not ignored and at least one module is
\* found, a release HEAD whose declared modules differ from the changed ones,
\* or a Modules footer naming a module that does not exist, makes TagRepo
\* return an error without any createTag or pushTags call.
C4_ValidationPrecedesTaggingOfModules ==
    (ModulesEnforced /\ (DeclaredDiffersFromChanged \/ FooterNamesUnknownModule)) =>
        /\ NoTagCall
        /\ Returned => ret.err \in {"head", "footer", "validation"}

C4_Witness ==
    /\ Returned
    /\ ModulesEnforced
    /\ DeclaredDiffersFromChanged
    /\ Config.CreateTag
    /\ ret.err = "validation"
    /\ ret.detail.failed
    /\ calls = <<>>

\* the resolution failed: TagRepo returned before the decision to tag
ResolutionFailed == ret.err \in {"paths", "head", "footer", "validation", "panic"}

\* C6: a TagRepo call that resolved the versions calls createTag if and only
\* if CreateTag is set and HEAD is a release commit or Force is set;
\* otherwise it makes no call that changes the repository and returns the
\* versions.  A call whose resolution failed creates no tag.
C6_TagsIffEnabledAndReleaseOrForce ==
    Returned =>
        /\ ResolutionFailed => calls = <<>>
        /\ ~ResolutionFailed =>
              /\ CallsOf("createTag") # <<>>
                    <=> (Config.CreateTag
                         /\ (HeadCommit.Type = TypeRelease \/ Config.Force))
              /\ CallsOf("createTag") = <<>> =>
                    /\ calls = <<>>
                    /\ ret.err = "none"
                    /\ ret.versions = run.versions
                    /\ ret.versions # <<>>

C6_Witness ==
    /\ Returned
    /\ ret.err = "none"
    /\ Config.CreateTag
    /\ Config.Force
    /\ HeadCommit.Type = TypeFeature
    /\ CreatedByRun = ret.versions
    /\ Len(CreatedByRun) = 2
    /\ \A i \in DOMAIN CreatedByRun :
           Tag(CreatedByRun[i], HeadCommit.Hash) \in gitRepo.tags

(***************************************************************************)
(* Properties of module discovery                                          *)
(***************************************************************************)
Found == pc \in {"found", "extracted"}

\* path a comes before path b: shorter first, lexicographic among paths of
\* equal length
PathBefore(a, b) ==
    \/ Len(a) < Len(b)
    \/ Len(a) = Len(b) /\ StrLess(a, b)

\* C11: findAllModules returns the modules of the worktree sorted by path
\* length ascending and lexicographically among paths of equal length.
C11_SortedByLengthThenPath ==
    Found =>
        /\ {discovered.modules[i].path : i \in DOMAIN discovered.modules}
              = {worktree[i].path : i \in DOMAIN worktree}
        /\ \A i, j \in DOMAIN discovered.modules :
               i < j => PathBefore(discovered.modules[i].path,
                                   discovered.modules[j].path)

(***************************************************************************)
(* Properties of the order of the versions                                 *)
(***************************************************************************)
\* the names of the Modules footers of HEAD, in the order they are written
HeadFooterList ==
    LET footers == SelectSeq(HeadCommit.Footers, LAMBDA f : f.Title = "Modules")
    IN  Flatten([i \in DOMAIN footers |-> FooterNames(footers[i])])

\* ver is a version of the module m: the tag prefix of m, then a version
VersionBelongsTo(ver, m) ==
    /\ HasPrefix(ver, m.prefix \o Config.VersionPrefix)
    /\ NewVersion(TrimPrefix(ver, m.prefix \o Config.VersionPrefix)).ok

\* the position of the module of ver in the discovery order, 0 if none
DiscoveryIndex(ver) ==
    IF \E i \in DOMAIN WorktreeModules : VersionBelongsTo(ver, WorktreeModules[i])
    THEN CHOOSE i \in DOMAIN WorktreeModules :
             VersionBelongsTo(ver, WorktreeModules[i])
    ELSE 0

\* a TagRepo call on modules has returned versions
ReturnedModuleVersions == Returned /\ ret.err = "none" /\ ModulesEnforced

\* C12: when HEAD has Modules footers, the versions TagRepo returns, and the
\* tags it creates, are those of the modules the footers name, in the order
\* the footers name them.
C12_VersionsInFooterOrder ==
    (ReturnedModuleVersions /\ HeadFooterList # <<>>) =>
        /\ Len(ret.versions) = Len(HeadFooterList)
        /\ \A i \in DOMAIN ret.versions :
               \E k \in DOMAIN WorktreeModules :
                   /\ WorktreeModules[k].name = HeadFooterList[i]
                   /\ VersionBelongsTo(ret.versions[i], WorktreeModules[k])
        /\ CallsOf("createTag") # <<>> => CreatedByRun = ret.versions

C12_Witness ==
    /\ ReturnedModuleVersions
    /\ HeadFooterList = <<Str_foo_bar, Str_foo>>
    /\ HeadCommit.Type = TypeRelease
    /\ Len(ret.versions) = 2
    /\ HasPrefix(ret.versions[1], Str_bar_slash)
    /\ HasPrefix(ret.versions[2], Str_v)
    /\ CreatedByRun = ret.versions

\* the versions are in the order in which the modules were discovered
InDiscoveryOrder(vs) ==
    \A i, j \in DOMAIN vs : i < j => DiscoveryIndex(vs[i]) < DiscoveryIndex(vs[j])

\* C13 as stated: the versions TagRepo returns and the tags it creates are
\* in the discovery order of the modules, whatever order the Modules footers
\* list them in.
C13_VersionsInDiscoveryOrder ==
    ReturnedModuleVersions =>
        /\ InDiscoveryOrder(ret.versions)
        /\ InDiscoveryOrder(CreatedByRun)

\* the footers of HEAD name the modules in the order of discovery
FootersInDiscoveryOrder ==
    \A i, j \in DOMAIN HeadFooterList :
        i < j => \E k, l \in DOMAIN WorktreeModules :
                     /\ k < l
                     /\ WorktreeModules[k].name = HeadFooterList[i]
                     /\ WorktreeModules[l].name = HeadFooterList[j]

\* C13 amended: the tags are created in the order of the returned versions,
\* and that order is the discovery order of the modules exactly when the
\* Modules footers of HEAD name the modules in discovery order (as they do
\* when there is no footer or a single name).
C13_DiscoveryOrderIffFootersInOrder ==
    ReturnedModuleVersions =>
        /\ InDiscoveryOrder(ret.versions) <=> FootersInDiscoveryOrder
        /\ CallsOf("createTag") # <<>> =>
               /\ CreatedByRun = ret.versions
               /\ InDiscoveryOrder(CreatedByRun) <=> FootersInDiscoveryOrder

C13_Witness ==
    /\ ReturnedModuleVersions
    /\ Len(ret.versions) = 2
    /\ ~FootersInDiscoveryOrder
    /\ DiscoveryIndex(ret.versions[1]) = 2
    /\ DiscoveryIndex(ret.versions[2]) = 1
    /\ CreatedByRun = ret.versions

(***************************************************************************)
(* Properties of the declared modules                                      *)
(***************************************************************************)
\* the elements of s in the order of their first occurrence, each once
Dedup(s) == SelectSeq([i \in DOMAIN s |-> IF \E j \in 1..(i - 1) : s[j] = s[i]
                                          THEN <<>> ELSE <<s[i]>>],
                      LAMBDA x : x # <<>>)

FirstOccurrences(s) == [i \in DOMAIN Dedup(s) |-> Dedup(s)[i][1]]

Extracted == pc = "extracted" /\ ~declared.err

\* the module extractCommitModules falls back to
DefaultModule ==
    IF \E i \in DOMAIN discovered.modules : discovered.modules[i].path = Str_dot
    THEN CHOOSE m \in {discovered.modules[i] : i \in DOMAIN discovered.modules} :
             m.path = Str_dot
    ELSE discovered.modules[1]

\* C14: the declared modules of HEAD are the modules named by its Modules
\* footers, each once, in the order of their first mention; without a
\* Modules footer they are the root module alone, or the first discovered
\* module when there is no root module.
C14_DeclaredModulesOnceInOrder ==
    Extracted =>
        IF HeadFooterList = <<>>
        THEN declared.modules = <<DefaultModule>>
        ELSE [i \in DOMAIN declared.modules |-> declared.modules[i].name]
                 = FirstOccurrences(HeadFooterList)

\* the root module of the worktree, or the first discovered one
MainModule ==
    IF \E i \in DOMAIN WorktreeModules : WorktreeModules[i].path = Str_dot
    THEN CHOOSE m \in {WorktreeModules[i] : i \in DOMAIN WorktreeModules} :
             m.path = Str_dot
    ELSE WorktreeModules[1]

\* C15: when HEAD is not a release commit, TagRepo returns one version, that
\* of the main module (the root module, or the first discovered module when
\* there is no root), whatever the message of HEAD says.
C15_NonReleaseReturnsMainModule ==
    (Returned /\ ret.err = "none" /\ HeadCommit.Type # TypeRelease) =>
        /\ Len(ret.versions) = 1
        /\ ModulesEnforced => VersionBelongsTo(ret.versions[1], MainModule)

(***************************************************************************)
(* Properties of the dirty worktree increment                              *)
(***************************************************************************)
\* C20: with an empty commit list and a dirty worktree the policy patch or
\* minor bumps the base version by that step and every other policy leaves it
\* unchanged; a clean worktree leaves it unchanged; with a non-empty commit
\* list the result is the same for a dirty and for a clean worktree.
C20_DirtyIncrementOnlyWithoutCommits ==
    Called =>
        IF incArgs.commits = <<>>
        THEN incResult =
                 CASE incArgs.isDirty /\ Config.DirtyWorktreeIncrement = IncrementPatch
                         -> IncPatch(incArgs.v)
                   [] incArgs.isDirty /\ Config.DirtyWorktreeIncrement = IncrementMinor
                         -> IncMinor(incArgs.v)
                   [] OTHER -> incArgs.v
        ELSE incResult = incrementVersion(incArgs.v, incArgs.commits,
                                          ~incArgs.isDirty, Config)

C20_Witness ==
    /\ Called
    /\ incArgs.commits = <<>>
    /\ incArgs.isDirty
    /\ Config.DirtyWorktreeIncrement = IncrementMinor
    /\ incArgs.v = Version(1, 2, 3)
    /\ incResult = Version(1, 3, 0)

(***************************************************************************)
(* Properties of repeated resolver calls                                   *)
(***************************************************************************)
\* the modules of the worktree the last call ran on
CallModules ==
    findAllModules(answer.files, <<>>, [Config EXCEPT !.Paths = <<>>]).modules

\* the last call was ModuleVersions with names and it returned versions
NamedCall == answer.op = "ModuleVersions" /\ answer.names # <<>> /\ answer.err = "none"

\* C16: ModuleVersions(names...) with a non-empty list of names returns
\* versions only for the named modules: every returned version belongs to a
\* module of the worktree whose name is one of names, also when no module has
\* one of the names
C16_OnlyNamedModules ==
    NamedCall =>
        \A i \in DOMAIN answer.versions :
            \E j \in DOMAIN CallModules :
                /\ SeqContains(answer.names, CallModules[j].name)
                /\ VersionBelongsTo(answer.versions[i], CallModules[j])

\* the names of ModuleVersions that name a module of the worktree
KnownNames == {n \in NameSet(CallModules) : SeqContains(answer.names, n)}

\* the part of C16 the code keeps: when some module has one of the names
C16_OnlyNamedModulesWhenKnown == (NamedCall /\ KnownNames # {}) => C16_OnlyNamedModules

C16_WitnessKnown == NamedCall /\ KnownNames # {} /\ Len(CallModules) > 1

\* what a call returns to its caller
Returns(r) == [err |-> r.err, versions |-> r.versions]

\* what the call op(names) can return on a Gotagger made anew with the Config
\* the caller has set, on the present repository
FreshReturns(op, names) ==
    IF op = "Version" THEN {Returns(GotaggerVersion(callerCfg, worktree, gitRepo))}
    ELSE IF op = "ModuleVersions"
    THEN {Returns(ModuleVersions(callerCfg, worktree, gitRepo, names))}
    ELSE {Returns(TagRepoResolve(callerCfg, worktree, gitRepo, o[1], o[2])) :
              o \in KeyOrders(WorktreeNames) \X KeyOrders(WorktreeNames)}

\* a step is a call of Version, ModuleVersions or TagRepo
CallStep == ncalls' = ncalls + 1

\* every call returns what a Gotagger made anew would return
AnswersAsFresh ==
    CallStep => Returns(answer') \in FreshReturns(answer'.op, answer'.names)

\* C17: resolver calls retain no state: Version, ModuleVersions and TagRepo
\* leave Config as the caller set it, and each call of a sequence (the caller
\* assigning IgnoreModules, the worktree gaining a go.mod in between) returns
\* what a Gotagger made anew with that Config returns on the same repository
C17_CallsRetainNoState ==
    [][CallStep => (Config' = callerCfg /\ AnswersAsFresh)]_vars

\* the second half of C17 alone: the answers, whatever became of Config
C17_AnswersAsFresh == [][AnswersAsFresh]_vars

\* the call about to be made resolves go modules
UsesModules == ~Config.IgnoreModules /\ Len(WorktreeModules) > 0

\* the tag prefix and the tags of what Version resolves: the first module,
\* or the repository when no modules are used
UnitPrefix ==
    IF UsesModules THEN WorktreeModules[1].prefix \o Config.VersionPrefix
    ELSE Config.VersionPrefix

IsVersionTag(name) ==
    /\ HasPrefix(name, UnitPrefix)
    /\ TrimPrefix(name, UnitPrefix) # <<>>
    /\ IsDigit(TrimPrefix(name, UnitPrefix)[1])
    /\ NewVersion(TrimPrefix(name, UnitPrefix)).ok

UnitTags == {t \in gitRepo.tags : IsVersionTag(t.name)}

TagVersion(t) == NewVersion(TrimPrefix(t.name, UnitPrefix)).v

LatestUnitTag ==
    CHOOSE t \in UnitTags :
        \A u \in UnitTags : ~VersionLessThan(TagVersion(t), TagVersion(u))

\* HEAD carries the latest tag and the worktree is clean
AtLatestTag ==
    /\ UnitTags # {}
    /\ LatestUnitTag.at = HeadCommit.Hash
    /\ ~gitRepo.dirty

\* a call of Version that returns a version
VersionStep == CallStep /\ answer'.op = "Version" /\ answer'.err = "none"

\* the call before was Version too, on the same worktree and Config
VersionAgain ==
    /\ VersionStep
    /\ answer.op = "Version" /\ answer.err = "none"
    /\ answer.files = worktree /\ answer.cfg = callerCfg
    /\ ~gitRepo.dirty

LatestTagReturned ==
    /\ (VersionStep /\ AtLatestTag) => answer'.versions = <<LatestUnitTag.name>>
    /\ VersionAgain => answer'.versions = answer.versions

\* C18: with no commits between HEAD and the latest tag and a clean worktree
\* Version returns exactly the latest tag, so Version twice in a row on an
\* unchanged clean repository returns the same string; when HEAD carries the
\* highest tag, that tag is returned
C18_LatestTagAtHeadIsReturned == [][LatestTagReturned]_vars

\* the part of C18 the code keeps: a latest tag above 0.0.0
C18_LatestTagAboveZeroIsReturned ==
    [][(UnitTags # {} /\ VersionLessThan(Version(0, 0, 0), TagVersion(LatestUnitTag)))
          => LatestTagReturned]_vars

\* a call that resolves the repository without go modules
SimpleStep == CallStep /\ answer'.op = "Version" /\ ~UsesModules

\* versionPath for the root path from the base version v behind commit hash
VersionFromBase(v, hash) ==
    versionPathFrom(Str_dot, [Config EXCEPT !.Paths = <<Str_dot>>], gitRepo,
                    [v |-> v, hash |-> hash])

NoTagMatchesResolved ==
    /\ (SimpleStep /\ UnitTags = {}) =>
          /\ answer'.err = "none"
          /\ answer'.versions = <<VersionFromBase(Version(0, 0, 0), NoHash)>>
    /\ (SimpleStep /\ UnitTags # {} /\ Config.VersionPrefix = <<>>) =>
          /\ answer'.err = "none"
          /\ answer'.versions =
                 <<VersionFromBase(TagVersion(LatestUnitTag), LatestUnitTag.at)>>

\* C19: without go modules, for every version prefix (the empty one too) and
\* every set of tags (the empty one too): when no tag matches the prefix the
\* call does not fail and returns the version computed from 0.0.0 over all
\* commits reachable from HEAD; with the empty prefix only the tags that begin
\* with a digit are considered
C19_NoMatchingTagStartsFromZero == [][NoTagMatchesResolved]_vars

\* the part of C19 the code keeps: the repository has a tag, or a prefix is set
C19_NoMatchingTagWithTagsOrPrefix ==
    [][(gitRepo.tags # {} \/ Config.VersionPrefix # <<>>) => NoTagMatchesResolved]_vars

(***************************************************************************)
(* Properties of the configuration step                                    *)
(***************************************************************************)
\* ParseJSON was called on the default Config and returned an error
Rejected == pc = "rejected"

\* C21: configuration errors never partially apply: when ParseJSON returns
\* an error, the Config it was called on is as it was before the call
C21_RejectedConfigUntouched == Rejected => Config = NewDefaultConfig

\* the part of C21 the code keeps: everything but the dirty worktree
\* increment and the version prefix is as before the call
C21_RejectedConfigKeepsTable ==
    Rejected =>
        Config = [NewDefaultConfig EXCEPT
                     !.DirtyWorktreeIncrement = Config.DirtyWorktreeIncrement,
                     !.VersionPrefix = Config.VersionPrefix]

\* the Config came out of a successful ParseJSON
ParsedFromJSON == Configured /\ cfgSource.kind = "json"

MajorOnlyFromBreaking ==
    (Called /\ incResult = IncMajor(incArgs.v)) => HasBreaking

\* C30: for every Config produced by a successful ParseJSON,
\* CommitTypeTable.Get returns none, patch or minor for every commit type,
\* never major; a major increment comes only from a breaking marker
C30_ParsedTableNeverMajor ==
    ParsedFromJSON =>
        /\ \A typ \in CommitTypes :
              Get(Config.CommitTypeTable, typ)
                  \in {IncrementNone, IncrementPatch, IncrementMinor}
        /\ MajorOnlyFromBreaking

\* the part of C30 the code keeps: the mappings of a parsed Config are never
\* major, and a major increment comes only from a breaking marker
C30_ParsedMappingsNeverMajor ==
    ParsedFromJSON =>
        /\ \A typ \in DOMAIN Config.CommitTypeTable.Mapper :
              Config.CommitTypeTable.Mapper[typ] # IncrementMajor
        /\ MajorOnlyFromBreaking

(***************************************************************************)
(* Properties of the attribution of changes to modules                     *)
(***************************************************************************)
Grouped == pc = "grouped"

Validated == pc = "validated"

\* the directory of file is the directory of module m or lies below it
Encloses(m, file) == UnderPath(Dir(file), m.path)

\* m is the nearest module of the worktree that encloses file
AttributedTo(file, m) ==
    /\ Encloses(m, file)
    /\ \A j \in DOMAIN discovered.modules :
          Encloses(discovered.modules[j], file)
              => UnderPath(m.path, discovered.modules[j].path)

IsRename(change) == change.DestName # <<>>

\* a path of one of the changes of commit c is attributed to m
Touches(c, m) ==
    \E k \in DOMAIN c.Changes :
        \/ AttributedTo(c.Changes[k].SourceName, m)
        \/ /\ IsRename(c.Changes[k])
           /\ AttributedTo(c.Changes[k].DestName, m)

\* a file that commit c changed without renaming it is attributed to m
ChangesFileOf(c, m) ==
    \E k \in DOMAIN c.Changes :
        /\ ~IsRename(c.Changes[k])
        /\ AttributedTo(c.Changes[k].SourceName, m)

\* the number of times commit c is counted for the i-th module
Counted(c, i) == Len(SelectSeq(grouped[i], LAMBDA x : x = c))

HistoryCommits == {gitRepo.history[k] : k \in DOMAIN gitRepo.history}

\* C22: each changed file is attributed to its nearest enclosing module and
\* a commit counts for a module only if one of its files is attributed to
\* it: a commit that touched only files of a nested sub-module does not count
\* for the parent, a commit that touched files of several modules counts once
\* for each of them
C22_CommitCountsForNearestModule ==
    Grouped =>
        \A i \in DOMAIN discovered.modules, c \in HistoryCommits :
            /\ Counted(c, i) <= 1
            /\ Counted(c, i) = 1 => Touches(c, discovered.modules[i])
            /\ ChangesFileOf(c, discovered.modules[i]) => Counted(c, i) = 1

\* HEAD touched a file of the sub-module bar/v2 only: it counts for bar/v2
\* and not for its parents bar and the root
C22_Witness ==
    /\ Grouped
    /\ Len(discovered.modules) = 3
    /\ \E i, j, k \in DOMAIN discovered.modules :
          /\ discovered.modules[i].path = Str_dot /\ Counted(HeadCommit, i) = 0
          /\ discovered.modules[j].path = Str_bar /\ Counted(HeadCommit, j) = 0
          /\ discovered.modules[k].path = Str_bar_v2 /\ Counted(HeadCommit, k) = 1

\* HEAD touched files of two modules: it counts once for each
C22_WitnessSeveral ==
    /\ Grouped
    /\ Len(HeadCommit.Changes) = 2
    /\ \E i, j \in DOMAIN discovered.modules :
          i # j /\ Counted(HeadCommit, i) = 1 /\ Counted(HeadCommit, j) = 1

\* a path of a rename of commit c is attributed to m
RenamesAt(c, m) ==
    \E k \in DOMAIN c.Changes :
        /\ IsRename(c.Changes[k])
        /\ \/ AttributedTo(c.Changes[k].SourceName, m)
           \/ AttributedTo(c.Changes[k].DestName, m)

\* C23: for a rename, attribution examines the source and the destination
\* path and counts the commit for a module if either is attributed to it: a
\* rename from module A into module B counts for A and for B, in the grouping
\* of commits and in the changed set of the release validator
C23_RenameCountsForBothModules ==
    /\ Grouped =>
          \A i \in DOMAIN discovered.modules, c \in HistoryCommits :
              RenamesAt(c, discovered.modules[i]) => Counted(c, i) = 1
    /\ Validated =>
          \A i \in DOMAIN discovered.modules :
              RenamesAt(HeadCommit, discovered.modules[i])
                  => SeqContains(valArgs.changedModules, discovered.modules[i])

\* the part of C23 the code keeps: the module of the source path is counted
C23_RenameCountsForSourceModule ==
    \A i \in DOMAIN discovered.modules :
        (\E k \in DOMAIN HeadCommit.Changes :
            /\ IsRename(HeadCommit.Changes[k])
            /\ AttributedTo(HeadCommit.Changes[k].SourceName, discovered.modules[i]))
        => /\ Grouped => Counted(HeadCommit, i) = 1
           /\ Validated => SeqContains(valArgs.changedModules, discovered.modules[i])

(***************************************************************************)
(* Properties of the base version of a module                              *)
(***************************************************************************)
Versioned == pc = "versioned"

\* the major versions a tag of module m may have
CompatibleMajors(m) ==
    IF FindVersionSuffix(m.name) = <<>> THEN {0, 1} ELSE {ModuleMajor(m)}

\* the version a tag name carries behind the prefix of module m
ModuleTagVersion(name, m) == NewVersion(TrimPrefix(name, m.prefix))

\* the version tags of module m whose major version is compatible with m
CompatibleTags(m) ==
    {t \in gitRepo.tags :
        /\ HasPrefix(t.name, m.prefix \o Config.VersionPrefix)
        /\ ModuleTagVersion(t.name, m).ok
        /\ ModuleTagVersion(t.name, m).v.major \in CompatibleMajors(m)}

HighestCompatibleTag(m) ==
    CHOOSE t \in CompatibleTags(m) :
        \A u \in CompatibleTags(m) :
            ~VersionLessThan(ModuleTagVersion(t.name, m).v, ModuleTagVersion(u.name, m).v)

BaseIsHighestCompatibleTag(i) ==
    IF CompatibleTags(discovered.modules[i]) = {}
    THEN resolved[i].base.hash = NoHash
    ELSE /\ resolved[i].base.hash = HighestCompatibleTag(discovered.modules[i]).at
         /\ resolved[i].base.v =
                ModuleTagVersion(HighestCompatibleTag(discovered.modules[i]).name,
                                 discovered.modules[i]).v

\* C24: for every list of tags, the base tag latestModule selects for a
\* module is the highest tag whose major version is compatible with the
\* module name (0 or 1 without a /vN suffix, N with one); no tag of another
\* major version, pre-release tags included, is selected
C24_BaseIsHighestCompatibleTag ==
    Versioned => \A i \in DOMAIN discovered.modules : BaseIsHighestCompatibleTag(i)

NoPreReleaseTag ==
    \A t \in gitRepo.tags, i \in DOMAIN discovered.modules :
        ModuleTagVersion(t.name, discovered.modules[i]).v.pre = <<>>

\* the part of C24 the code keeps: no tag is a pre-release
C24_BaseIsHighestCompatibleRelease ==
    (Versioned /\ NoPreReleaseTag) => C24_BaseIsHighestCompatibleTag

C24_WitnessRelease ==
    /\ Versioned /\ NoPreReleaseTag
    /\ \E i \in DOMAIN discovered.modules :
          /\ ModuleMajor(discovered.modules[i]) = 2
          /\ resolved[i].base.v = Version(2, 1, 0)
          /\ resolved[i].base.hash # NoHash

\* the epoch version of module m: the major version its name encodes
EpochVersion(m) ==
    m.prefix \o Config.VersionPrefix \o VersionString(Version(ModuleMajor(m), 0, 0))

\* C25: a module with no compatible tag resolves to its epoch version
\* verbatim (module prefix, version prefix, N.0.0), with no increment step:
\* whatever the commits in history and the dirty state
C25_NoCompatibleTagIsEpoch ==
    Versioned =>
        \A i \in DOMAIN discovered.modules :
            CompatibleTags(discovered.modules[i]) = {}
                => resolved[i].version = EpochVersion(discovered.modules[i])

\* the part of C25 the code keeps: no tag is a pre-release
C25_NoCompatibleReleaseIsEpoch ==
    (Versioned /\ NoPreReleaseTag) => C25_NoCompatibleTagIsEpoch

\* a dirty worktree and a feat commit on a file of module foo/v2, whose
\* tags are all of other major versions
C25_WitnessRelease ==
    /\ Versioned /\ NoPreReleaseTag
    /\ gitRepo.dirty /\ gitRepo.tags # {}
    /\ \E i \in DOMAIN discovered.modules :
          /\ ModuleMajor(discovered.modules[i]) = 2
          /\ CompatibleTags(discovered.modules[i]) = {}
          /\ resolved[i].version = Str_v \o VersionString(Version(2, 0, 0))

\* findAllModules has run: discovered holds the modules it sorted
Discovered == pc # "new" /\ ~discovered.err

\* C28: sortByPath.Less is a strict weak ordering: Less(a, b) and Less(b, a)
\* are never both true, for any two modules the sort compares
C28_LessIsAsymmetric ==
    Discovered =>
        \A i, j \in DOMAIN discovered.modules :
            ~(Less(discovered.modules[i], discovered.modules[j])
              /\ Less(discovered.modules[j], discovered.modules[i]))

\* what Less keeps: it is irreflexive, and it holds both ways only for paths
\* of different lengths of which the longer is the lexicographically smaller
C28_LessBothWaysOnlyAcrossLengths ==
    Discovered =>
        \A i, j \in DOMAIN discovered.modules :
            LET a == discovered.modules[i]
                b == discovered.modules[j]
            IN  (Less(a, b) /\ Less(b, a))
                    => /\ Len(a.path) # Len(b.path)
                       /\ (Len(a.path) < Len(b.path)) = StrLess(b.path, a.path)

\* the positions of the pushTags calls of the run
Pushes == {k \in DOMAIN calls : calls[k].op = "pushTags"}

\* C26: TagRepo calls pushTags at most once, only when PushTag is set and
\* every creation of the run has succeeded, with exactly the tags the run
\* created in the order of creation; no push comes before or between the
\* creations, and none when no tag was to be created.
C26_PushOnceAfterAllCreations ==
    /\ Cardinality(Pushes) <= 1
    /\ \A k \in Pushes :
          /\ Config.PushTag /\ Config.CreateTag
          /\ HeadCommit.Type = TypeRelease \/ Config.Force
          /\ k = Len(run.versions) + 1
          /\ k > 1
          /\ \A i \in 1..(k - 1) : calls[i] = Call("createTag", <<run.versions[i]>>, TRUE)
          /\ calls[k].names = [i \in 1..(k - 1) |-> calls[i].names[1]]
          /\ \A i \in (k + 1)..Len(calls) : calls[i].op = "deleteTags"
    /\ (Returned /\ ret.err = "none" /\ Config.PushTag /\ CallsOf("createTag") # <<>>)
          => Pushes # {}

\* two tags are created and then pushed together
C26_Witness ==
    /\ Returned /\ ret.err = "none"
    /\ Len(calls) = 3
    /\ calls[1].op = "createTag" /\ calls[2].op = "createTag"
    /\ calls[3] = Call("pushTags", <<calls[1].names[1], calls[2].names[1]>>, TRUE)
    /\ calls[1].names # calls[2].names
    /\ remoteTags = {calls[1].names[1], calls[2].names[1]}

(***************************************************************************)
(* Properties of interleaved and successive runs                           *)
(***************************************************************************)
\* C27: when another process creates a tag of a name the run has resolved
\* before the run creates it, the run's createTag of that name fails, and
\* the rollback of the run deletes only tags the run created: the tags of
\* the other process all stay.
C27_RivalTagFailsRunAndSurvivesRollback ==
    /\ \A k \in DOMAIN calls :
          (calls[k].op = "createTag" /\ calls[k].ok)
              => calls[k].names[1] \notin TagNames(rival)
    /\ \A k \in DOMAIN calls :
          calls[k].op = "deleteTags"
              => \A i \in DOMAIN calls[k].names :
                    /\ calls[k].names[i] \notin TagNames(rival)
                    /\ \E j \in 1..(k - 1) :
                          calls[j] = Call("createTag", <<calls[k].names[i]>>, TRUE)
    /\ rival \subseteq gitRepo.tags
    /\ (Returned /\ rival # {}) => ret.err = "createTag"

\* the run creates one tag, the other process creates the second, the run's
\* second createTag fails and the rollback deletes the first tag only
C27_Witness ==
    /\ Returned /\ ret.err = "createTag" /\ ~ret.delErr
    /\ Len(calls) = 3
    /\ calls[1].op = "createTag" /\ calls[1].ok
    /\ calls[2].op = "createTag" /\ ~calls[2].ok
    /\ rival = {Tag(calls[2].names[1], run.hash)}
    /\ calls[3] = Call("deleteTags", calls[1].names, TRUE)
    /\ TagNames(gitRepo.tags) \cap {calls[1].names[1], calls[2].names[1]}
          = {calls[2].names[1]}

\* the next run has resolved the units the first run tagged
ResolvedAgain == pc = "resolved"

\* the base the next run finds for the i-th unit is the i-th tag of the
\* first run: its commit, and the version the name of the tag ends with
BaseIsCreatedTag(i) ==
    LET T == run.created[i]
        vs == VersionString(resolved[i].base.v)
    IN  /\ resolved[i].base.hash = run.hash
        /\ Len(T) >= Len(vs)
        /\ SubSeq(T, Len(T) - Len(vs) + 1, Len(T)) = vs

\* C29: after TagRepo has created tag T for a unit, the next run uses T's
\* version as the base version of that unit, for every version prefix, with
\* and without modules
C29_CreatedTagIsNextBase ==
    ResolvedAgain =>
        /\ Len(resolved) = Len(run.created)
        /\ \A i \in DOMAIN run.created : BaseIsCreatedTag(i)

\* what the code keeps: a created tag of a version other than 0.0.0, and
\* every created tag of a module, is the base of the next run
C29_CreatedTagAboveZeroIsNextBase ==
    ResolvedAgain =>
        /\ Len(resolved) = Len(run.created)
        /\ \A i \in DOMAIN run.created :
              (\/ ~Config.IgnoreModules /\ worktree # <<>>
               \/ run.created[i] # Config.VersionPrefix \o VersionString(Version(0, 0, 0)))
                  => BaseIsCreatedTag(i)

\* two modules are tagged with the empty version prefix, and the next run
\* finds both tags
C29_WitnessModules ==
    /\ ResolvedAgain
    /\ Config.VersionPrefix = <<>>
    /\ Len(run.created) = 2
    /\ BaseIsCreatedTag(1) /\ BaseIsCreatedTag(2)
    /\ run.created[1] # run.created[2]

\* a tag above 0.0.0 is created without modules, and the next run finds it
C29_WitnessSimple ==
    /\ ResolvedAgain
    /\ Config.IgnoreModules /\ worktree # <<>>
    /\ run.created = <<Str_v \o VersionString(Version(1, 0, 1))>>
    /\ BaseIsCreatedTag(1)
    /\ resolved[1].version = run.created[1]
====
